---- MODULE Spec2Model ----
(***************************************************************************)
(* A model of the exchange abstraction core of cryptofiend: the nonce      *)
(* sequencing of authenticated requests (Kraken, Gemini), the order state  *)
(* normaliser (Binance, Gemini) and the get-or-update order book readers   *)
(* (Binance, Liqui) over the per-exchange order book cache.                *)
(***************************************************************************)
EXTENDS Integers, Sequences, FiniteSets, TLC

(***************************************************************************)
(* Bounds of the model.                                                    *)
(***************************************************************************)
NumKProcs == 2      \* goroutines sharing one Kraken instance
MaxReq    == 3      \* authenticated requests each goroutine makes
MaxSigned == 1      \* requests per goroutine when Kraken and Gemini both send

MinClock  == 5      \* the first wall clock reading
MaxClock  == 6      \* wall clock readings MinClock..MaxClock (scaled)
NumGemini == 2      \* Gemini instances
NumSessionIDs == 2  \* session IDs passed to AddSession
NumAdders == 2      \* goroutines calling AddSession
MaxAdd    == 1      \* AddSession calls each goroutine makes
MaxGReq   == 2      \* authenticated Gemini requests in a run
MaxQty    == 2      \* order amounts 0..MaxQty, in units of the smallest lot
MaxTrades == 2      \* past trades in one trade history
MaxDepth  == 2      \* price levels on each side of a fetched book
NumUpdaters == 2    \* goroutines calling UpdateOrderbook on one instance
MaxUpd    == 1      \* UpdateOrderbook calls each goroutine makes
MaxPairs  == 2      \* pairs passed to one GetOrders call
MaxSymbols == 2     \* symbols in the exchange info Binance.Run fetches

KProcs == 1..NumKProcs
SeqProcs == {CHOOSE p \in KProcs : \A q \in KProcs : p <= q}

NoKey == ""         \* the zero value of an unset APIKey or APISecret
APIKeys == {NoKey, "key"}
\* "c2VjcmV0" is valid base64, "not*base64" is not (Base64Decode fails)
APISecrets == {NoKey, "c2VjcmV0", "not*base64"}

VARIABLES
    k,          \* the Kraken instance: Enabled, AuthenticatedAPISupport,
                \* APIKey, APISecret, Nonce (exchange.Base fields)
    clock,      \* time.Now().UnixNano()
    kpc,        \* position of each goroutine in SendAuthenticatedHTTPRequest
    kSawZero,   \* per goroutine: the outcome of k.Nonce.Get() == 0
    kValues,    \* per goroutine: values["nonce"] of the request being built
    kCalls,     \* per goroutine: requests started so far
    kResult,    \* per goroutine: what its last request returned
    kNet,       \* the POST requests handed to common.SendHTTPRequest, in order
    g,          \* the Gemini instances: exchange.Base fields and Role,
                \* RequiresHeartBeat
    Session,    \* the package-level session map: session ID -> instance
    apc,        \* position of each goroutine in AddSession
    aArgs,      \* per goroutine: the arguments of its AddSession call
    aCalls,     \* per goroutine: AddSession calls started so far
    aResult,    \* per goroutine: what its last AddSession call returned
    gNet,       \* the requests Gemini handed to common.SendHTTPRequest
    gLast,      \* the last Gemini authenticated request and its result
    oDriver,    \* the conversion the last poll ran
    oRaw,       \* the raw orders or trades the exchange reported to it
    oOrders,    \* the canonical orders it returned, in the same order
    mName,      \* the driver whose instance the run polls: its Name
    nilPolicy,  \* Binance: what a rate limited fetch returns for a symbol
                \* that was never fetched
    Orderbooks, \* the instance's order book cache (Base.Orderbooks)
    Tickers,    \* the ticker cache (package ticker)
    lastMarketData, \* Binance: symbol -> market data of the last fetch
    mFetched,   \* per key: the market data its last update built a book from
    mLast,      \* the last market data call: its arguments, what the
                \* exchange answered and what the call returned
    uProc,      \* per goroutine in UpdateOrderbook: its position, its pair
                \* and the book it built
    uCalls,     \* per goroutine: UpdateOrderbook calls started so far
    uWritten,   \* per key: the books ProcessOrderbook was handed so far
    uRead,      \* the last read of the cache: who read which key, the books
                \* put under the key by then, and what the read returned
    lastOpenOrders, \* Binance: symbol -> open orders of the last fetch
    kTicker,    \* Kraken: k.Ticker, symbol -> KrakenTicker
    dLast,      \* the last driver call: its arguments, what the exchange
                \* answered and what the call returned
    rpc,        \* position of the goroutine running Binance.Run
    rInfo,      \* exchangeInfo.Symbols as fetched by Run
    ri,         \* the loop index i of Run
    currencyPairs,     \* b.currencyPairs
    symbolDetailsMap,  \* b.symbolDetailsMap
    rSeen       \* the map the last GetCurrencyPairs or GetLimits call read

kvars == <<k, kpc, kSawZero, kValues, kCalls, kResult, kNet>>
gvars == <<g, Session, apc, aArgs, aCalls, aResult, gNet, gLast>>
ovars == <<oDriver, oRaw, oOrders>>
mvars == <<mName, nilPolicy, Orderbooks, Tickers, lastMarketData, mFetched,
           mLast>>
uvars == <<uProc, uCalls, uWritten, uRead>>
dvars == <<lastOpenOrders, kTicker, dLast>>
rvars == <<rpc, rInfo, ri, currencyPairs, symbolDetailsMap, rSeen>>
vars == <<clock, kvars, gvars, ovars, mvars, uvars, dvars, rvars>>

----------------------------------------------------------------------------
(***************************************************************************)
(* strconv.FormatInt(n, 10) for n >= 0: the decimal digits of n.           *)
(***************************************************************************)
RECURSIVE FormatInt(_)
FormatInt(n) ==
    IF n < 10 THEN <<n>> ELSE Append(FormatInt(n \div 10), n % 10)

(***************************************************************************)
(* The nonce sequencer (package nonce): every operation is one short       *)
(* critical section on the counter.                                        *)
(***************************************************************************)
NonceGet(n) == n
NonceSet(n, val) == val
NonceInc(n) == n + 1
NonceString(n) == FormatInt(n)

\* common.Base64Decode(k.APISecret) fails on input that is not base64
Base64DecodeOK(secret) == secret # "not*base64"

(***************************************************************************)
(* Kraken.SetDefaults and Kraken.Setup.                                    *)
(***************************************************************************)
KrakenDefaults ==
    [Enabled |-> FALSE, AuthenticatedAPISupport |-> FALSE,
     APIKey |-> NoKey, APISecret |-> NoKey, Nonce |-> 0]

ExchangeConfigs ==
    [Enabled : BOOLEAN, AuthenticatedAPISupport : BOOLEAN,
     APIKey : APIKeys, APISecret : APISecrets]

KrakenSetup(kr, exch) ==
    IF ~exch.Enabled
    THEN [kr EXCEPT !.Enabled = FALSE]
    ELSE [kr EXCEPT !.Enabled = TRUE,
                    !.AuthenticatedAPISupport = exch.AuthenticatedAPISupport,
                    !.APIKey = exch.APIKey,
                    !.APISecret = exch.APISecret]

KInit ==
    /\ k \in {KrakenSetup(KrakenDefaults, exch) : exch \in ExchangeConfigs}
    /\ kpc = [p \in KProcs |-> "idle"]
    /\ kSawZero = [p \in KProcs |-> FALSE]
    /\ kValues = [p \in KProcs |-> <<>>]
    /\ kCalls = [p \in KProcs |-> 0]
    /\ kResult = [p \in KProcs |-> "none"]
    /\ kNet = <<>>

\* the wall clock advances
Tick ==
    /\ clock < MaxClock
    /\ clock' = clock + 1

(***************************************************************************)
(* Kraken.SendAuthenticatedHTTPRequest, one action per shared-memory step. *)
(***************************************************************************)
\* a credentials check that advances the sequencer before it decides
KCheckCredentials_AdvancesNonce(p) ==
    /\ kpc[p] = "idle"
    /\ kCalls[p] < MaxReq
    /\ kCalls' = [kCalls EXCEPT ![p] = @ + 1]
    /\ kValues' = [kValues EXCEPT ![p] = <<>>]
    /\ k' = [k EXCEPT !.Nonce = IF NonceGet(@) = 0 THEN NonceSet(@, clock)
                                                   ELSE NonceInc(@)]
    /\ IF ~k.AuthenticatedAPISupport
       THEN /\ kResult' = [kResult EXCEPT ![p] = "credentialsMissing"]
            /\ kpc' = kpc
       ELSE /\ kResult' = [kResult EXCEPT ![p] = "none"]
            /\ kpc' = [kpc EXCEPT ![p] = "get"]
    /\ UNCHANGED <<kSawZero, kNet>>

\* entry: the credentials check
KCheckCredentials(p) ==
    /\ kpc[p] = "idle"
    /\ kCalls[p] < MaxReq
    /\ kCalls' = [kCalls EXCEPT ![p] = @ + 1]
    /\ kValues' = [kValues EXCEPT ![p] = <<>>]
    /\ IF ~k.AuthenticatedAPISupport
       THEN /\ kResult' = [kResult EXCEPT ![p] = "credentialsMissing"]
            /\ kpc' = kpc
       ELSE /\ kResult' = [kResult EXCEPT ![p] = "none"]
            /\ kpc' = [kpc EXCEPT ![p] = "get"]
    /\ UNCHANGED <<k, kSawZero, kNet>>

\* if k.Nonce.Get() == 0
KNonceGet(p) ==
    /\ kpc[p] = "get"
    /\ kSawZero' = [kSawZero EXCEPT ![p] = (NonceGet(k.Nonce) = 0)]
    /\ kpc' = [kpc EXCEPT ![p] = "update"]
    /\ UNCHANGED <<k, kValues, kCalls, kResult, kNet>>

\* a sequencer that reads the clock for every request
KNonceUpdate_ReadsClockAgain(p) ==
    /\ kpc[p] = "update"
    /\ k' = [k EXCEPT !.Nonce = NonceSet(@, clock)]
    /\ kpc' = [kpc EXCEPT ![p] = "string"]
    /\ UNCHANGED <<kSawZero, kValues, kCalls, kResult, kNet>>

\* k.Nonce.Set(time.Now().UnixNano()) or k.Nonce.Inc()
KNonceUpdate(p) ==
    /\ kpc[p] = "update"
    /\ k' = [k EXCEPT !.Nonce = IF kSawZero[p] THEN NonceSet(@, clock)
                                               ELSE NonceInc(@)]
    /\ kpc' = [kpc EXCEPT ![p] = "string"]
    /\ UNCHANGED <<kSawZero, kValues, kCalls, kResult, kNet>>

\* values.Set("nonce", k.Nonce.String()); secret, err := Base64Decode(...)
KNonceString(p) ==
    /\ kpc[p] = "string"
    /\ kValues' = [kValues EXCEPT ![p] = NonceString(k.Nonce)]
    /\ IF Base64DecodeOK(k.APISecret)
       THEN /\ kpc' = [kpc EXCEPT ![p] = "send"]
            /\ kResult' = kResult
       ELSE /\ kpc' = [kpc EXCEPT ![p] = "idle"]
            /\ kResult' = [kResult EXCEPT ![p] = "decodeError"]
    /\ UNCHANGED <<k, kSawZero, kCalls, kNet>>

\* a request signed over the sequencer's value at the time of signing
KSend_SignsSequencer(p) ==
    /\ kpc[p] = "send"
    /\ kNet' = Append(kNet, [proc |-> p,
                             nonce |-> kValues[p],
                             signedNonce |-> NonceString(k.Nonce),
                             apiKey |-> k.APIKey,
                             apiSecret |-> k.APISecret])
    /\ \E outcome \in {"ok", "transportError", "jsonError"} :
           kResult' = [kResult EXCEPT ![p] = outcome]
    /\ kpc' = [kpc EXCEPT ![p] = "idle"]
    /\ UNCHANGED <<k, kSawZero, kValues, kCalls>>

\* the signature, the headers and common.SendHTTPRequest("POST", ...)
KSend(p) ==
    /\ kpc[p] = "send"
    /\ kNet' = Append(kNet, [proc |-> p,
                             nonce |-> kValues[p],
                             signedNonce |-> kValues[p],
                             apiKey |-> k.APIKey,
                             apiSecret |-> k.APISecret])
    /\ \E outcome \in {"ok", "transportError", "jsonError"} :
           kResult' = [kResult EXCEPT ![p] = outcome]
    /\ kpc' = [kpc EXCEPT ![p] = "idle"]
    /\ UNCHANGED <<k, kSawZero, kValues, kCalls>>

KStep(p) ==
    \/ KCheckCredentials(p)
    \/ KNonceGet(p)
    \/ KNonceUpdate(p)
    \/ KNonceString(p)
    \/ KSend(p)


----------------------------------------------------------------------------
(***************************************************************************)
(* Gemini: the session map, AddSession and SendAuthenticatedHTTPRequest.   *)
(***************************************************************************)
Geminis == 1..NumGemini
SessionIDs == 1..NumSessionIDs
Adders == 1..NumAdders
NoSession == 0      \* a session ID with no entry in the Session map

geminiAPIURL == "https://api.gemini.com"
geminiSandboxAPIURL == "https://api.sandbox.gemini.com"
geminiRoleTrader == "trader"
geminiRoleFundManager == "fundmanager"
geminiBalances == "balances"

GeminiDefaults ==
    [Enabled |-> FALSE, AuthenticatedAPISupport |-> FALSE,
     APIKey |-> NoKey, APISecret |-> NoKey, Role |-> "",
     RequiresHeartBeat |-> FALSE, APIUrl |-> geminiAPIURL, Nonce |-> 0]

GeminiConfigs ==
    [Enabled : {TRUE}, AuthenticatedAPISupport : BOOLEAN,
     APIKey : {"key"}, APISecret : {"c2VjcmV0"}, UseSandbox : {FALSE}]

GeminiSetup(gm, exch) ==
    IF ~exch.Enabled
    THEN [gm EXCEPT !.Enabled = FALSE]
    ELSE [gm EXCEPT !.Enabled = TRUE,
                    !.AuthenticatedAPISupport = exch.AuthenticatedAPISupport,
                    !.APIKey = exch.APIKey,
                    !.APISecret = exch.APISecret,
                    !.APIUrl = IF exch.UseSandbox THEN geminiSandboxAPIURL
                                                  ELSE @]

\* the arguments callers pass to AddSession
Credentials == {[apiKey |-> NoKey, apiSecret |-> NoKey],
                [apiKey |-> "key2", apiSecret |-> "secret2"]}
SessionKinds ==
    {[role |-> geminiRoleTrader, needsHeartbeat |-> FALSE, isSandbox |-> FALSE],
     [role |-> geminiRoleFundManager, needsHeartbeat |-> TRUE, isSandbox |-> TRUE]}
AddSessionArgs ==
    [inst : Geminis, sessionID : SessionIDs, creds : Credentials,
     kind : SessionKinds]
NoArgs == [inst |-> 0]

GInit ==
    /\ g \in [Geminis -> {GeminiSetup(GeminiDefaults, exch) :
                              exch \in GeminiConfigs}]
    /\ Session = [sid \in SessionIDs |-> NoSession]
    /\ apc = [a \in Adders |-> "idle"]
    /\ aArgs = [a \in Adders |-> NoArgs]
    /\ aCalls = [a \in Adders |-> 0]
    /\ aResult = [a \in Adders |-> "none"]
    /\ gNet = <<>>
    /\ gLast = [inst |-> 0, result |-> "none"]

\* AddSession up to the lookup of the session ID
AddSessionLookup(a, args) ==
    /\ apc[a] = "idle"
    /\ aCalls[a] < MaxAdd
    /\ aCalls' = [aCalls EXCEPT ![a] = @ + 1]
    /\ IF Session[args.sessionID] # NoSession
       THEN /\ aResult' = [aResult EXCEPT ![a] = "sessionID already being used"]
            /\ UNCHANGED <<apc, aArgs>>
       ELSE /\ aResult' = [aResult EXCEPT ![a] = "none"]
            /\ apc' = [apc EXCEPT ![a] = "store"]
            /\ aArgs' = [aArgs EXCEPT ![a] = args]
    /\ UNCHANGED <<g, Session, gNet, gLast>>

\* the fields AddSession writes to the instance it is given
AddSessionFields(gm, args) ==
    [gm EXCEPT !.APIKey = args.creds.apiKey,
               !.APISecret = args.creds.apiSecret,
               !.Role = args.kind.role,
               !.RequiresHeartBeat = args.kind.needsHeartbeat,
               !.APIUrl = IF args.kind.isSandbox THEN geminiSandboxAPIURL
                                            ELSE geminiAPIURL]

\* AddSession from the field writes to Session[sessionID] = g
AddSessionStore(a) ==
    /\ apc[a] = "store"
    /\ g' = [g EXCEPT ![aArgs[a].inst] = AddSessionFields(@, aArgs[a])]
    /\ Session' = [Session EXCEPT ![aArgs[a].sessionID] = aArgs[a].inst]
    /\ aResult' = [aResult EXCEPT ![a] = "nil"]
    /\ apc' = [apc EXCEPT ![a] = "idle"]
    /\ aArgs' = [aArgs EXCEPT ![a] = NoArgs]
    /\ UNCHANGED <<aCalls, gNet, gLast>>

\* g.Nonce.GetValue: the sequencer's next(), seeded from the clock on first use
NonceGetValue(n, now) == IF n = 0 THEN now ELSE n + 1

\* the request map that is JSON encoded, base64 encoded and signed
GeminiPayload(path, nonce, params) ==
    [request |-> <<"/v1/", path>>, nonce |-> nonce, params |-> params]

\* Gemini.SendAuthenticatedHTTPRequest
GSendAuthenticatedHTTPRequest(i, path, params) ==
    /\ Len(gNet) < MaxGReq
    /\ IF ~g[i].AuthenticatedAPISupport
       THEN /\ gLast' = [inst |-> i, result |-> "credentialsMissing",
                         apiKey |-> g[i].APIKey, apiSecret |-> g[i].APISecret]
            /\ UNCHANGED <<g, gNet>>
       ELSE LET n == NonceGetValue(g[i].Nonce, clock)
                payload == GeminiPayload(path, n, params)
            IN  /\ g' = [g EXCEPT ![i].Nonce = n]
                /\ gNet' = Append(gNet, [inst |-> i,
                                         url |-> <<g[i].APIUrl, "/v1/", path>>,
                                         apiKey |-> g[i].APIKey,
                                         apiSecret |-> g[i].APISecret,
                                         payload |-> payload,
                                         signed |-> payload])
                /\ \E outcome \in {"ok", "transportError", "exchangeError"} :
                       gLast' = [inst |-> i, result |-> outcome,
                                 apiKey |-> g[i].APIKey,
                                 apiSecret |-> g[i].APISecret]
    /\ UNCHANGED <<Session, apc, aArgs, aCalls, aResult>>

GRequest ==
    \E i \in Geminis : GSendAuthenticatedHTTPRequest(i, geminiBalances, <<>>)

geminiWithdraw == "withdraw/"
WithdrawCurrencies == {"btc", "eth"}
WithdrawAddresses == {"1BoatSLRHtKNngkdXEeobR76b53LETtpyT"}
WithdrawAmounts == {2}
\* geminiWithdraw + currency
WithdrawPath(currency) ==
    CASE currency = "btc" -> "withdraw/btc"
      [] currency = "eth" -> "withdraw/eth"

\* Gemini.WithdrawCrypto: the request map is filled with the address and the
\* amount, and SendAuthenticatedHTTPRequest is called with nil params
WithdrawCrypto(i, address, currency, amount) ==
    LET request == [address |-> address, amount |-> FormatInt(amount)]
        nil == <<>>
    IN  GSendAuthenticatedHTTPRequest(i, WithdrawPath(currency), nil)

GWithdrawCrypto ==
    \E i \in Geminis, address \in WithdrawAddresses,
       currency \in WithdrawCurrencies, amount \in WithdrawAmounts :
        WithdrawCrypto(i, address, currency, amount)

\* AddSession called with no other call in progress: the lookup, the field
\* writes and the map store of one call
AddSession(a, args) ==
    /\ apc[a] = "idle"
    /\ aCalls[a] < MaxAdd
    /\ aCalls' = [aCalls EXCEPT ![a] = @ + 1]
    /\ IF Session[args.sessionID] # NoSession
       THEN /\ aResult' = [aResult EXCEPT ![a] = "sessionID already being used"]
            /\ UNCHANGED <<g, Session>>
       ELSE /\ g' = [g EXCEPT ![args.inst] = AddSessionFields(@, args)]
            /\ Session' = [Session EXCEPT ![args.sessionID] = args.inst]
            /\ aResult' = [aResult EXCEPT ![a] = "nil"]
    /\ UNCHANGED <<apc, aArgs, gNet, gLast>>

----------------------------------------------------------------------------
(***************************************************************************)
(* The order state normaliser: Binance.convertOrderToExchangeOrder,        *)
(* Gemini orderToExchangeOrder and tradeHistoryToExchangeOrders.  Amounts  *)
(* are whole numbers of the smallest lot.                                   *)
(***************************************************************************)
OrderStatusNew == "NEW"
OrderStatusPartial == "PARTIALLY_FILLED"
OrderStatusFilled == "FILLED"
OrderStatusCanceled == "CANCELED"
OrderStatusPendingCancel == "PENDING_CANCEL"
OrderStatusRejected == "REJECTED"
OrderStatusExpired == "EXPIRED"
OrderTypeLimit == "LIMIT"

ExchangeOrderStatusActive == "Active"
ExchangeOrderStatusFilled == "Filled"
ExchangeOrderStatusAborted == "Aborted"
ExchangeOrderStatusUnknown == "Unknown"
OrderTypeExchangeLimit == "exchange limit"

\* strings.ToLower on the side strings the exchanges use
ToLower(str) ==
    CASE str = "BUY" -> "buy"
      [] str = "SELL" -> "sell"
      [] str = "Buy" -> "buy"
      [] str = "Sell" -> "sell"
      [] str = "ETH" -> "eth"
      [] str = "LTC" -> "ltc"
      [] str = "BTC" -> "btc"
      [] str = "USD" -> "usd"
      [] OTHER -> str

\* the zero value of exchange.Order
ZeroOrder ==
    [OrderID |-> <<>>, Status |-> "", Amount |-> 0, FilledAmount |-> 0,
     RemainingAmount |-> 0, Rate |-> 0, CreatedAt |-> 0, Side |-> "",
     Type |-> ""]

\* a switch that takes a pending cancel for a live order
BinanceStatus_PendingCancelActive(status) ==
    CASE status \in {OrderStatusCanceled, OrderStatusExpired,
                     OrderStatusRejected}
             -> ExchangeOrderStatusAborted
      [] status = OrderStatusFilled -> ExchangeOrderStatusFilled
      [] status \in {OrderStatusNew, OrderStatusPartial,
                     OrderStatusPendingCancel}
             -> ExchangeOrderStatusActive
      [] OTHER -> ExchangeOrderStatusUnknown

\* the switch on order.Status
BinanceStatus(status) ==
    CASE status \in {OrderStatusCanceled, OrderStatusPendingCancel,
                     OrderStatusExpired, OrderStatusRejected}
             -> ExchangeOrderStatusAborted
      [] status = OrderStatusFilled -> ExchangeOrderStatusFilled
      [] status \in {OrderStatusNew, OrderStatusPartial}
             -> ExchangeOrderStatusActive
      [] OTHER -> ExchangeOrderStatusUnknown

\* Binance.convertOrderToExchangeOrder
convertOrderToExchangeOrder(order) ==
    LET remaining == order.OrigQty - order.ExecutedQty
    IN  [ZeroOrder EXCEPT
            !.OrderID = FormatInt(order.OrderID),
            !.Status = IF remaining = 0 THEN ExchangeOrderStatusFilled
                                        ELSE BinanceStatus(order.Status),
            !.Amount = order.OrigQty,
            !.FilledAmount = order.ExecutedQty,
            !.RemainingAmount = remaining,
            !.Rate = order.Price,
            !.CreatedAt = order.Time \div 1000,
            !.Side = ToLower(order.Side),
            !.Type = IF order.Type = OrderTypeLimit
                     THEN OrderTypeExchangeLimit ELSE @]

\* the if / else if / else on IsLive and IsCancelled
GeminiStatus(inOrder) ==
    IF inOrder.IsLive THEN ExchangeOrderStatusActive
    ELSE IF inOrder.IsCancelled THEN ExchangeOrderStatusAborted
    ELSE ExchangeOrderStatusFilled

\* Gemini orderToExchangeOrder
orderToExchangeOrder(inOrder) ==
    [ZeroOrder EXCEPT
        !.OrderID = FormatInt(inOrder.OrderID),
        !.Status = GeminiStatus(inOrder),
        !.Amount = inOrder.OriginalAmount,
        !.FilledAmount = inOrder.ExecutedAmount,
        !.RemainingAmount = inOrder.RemainingAmount,
        !.Rate = inOrder.Price,
        !.CreatedAt = inOrder.Timestamp,
        !.Side = inOrder.Side]

\* the body of the loop of tradeHistoryToExchangeOrders
tradeToExchangeOrder(trade) ==
    [ZeroOrder EXCEPT
        !.OrderID = FormatInt(trade.OrderID),
        !.Status = ExchangeOrderStatusFilled,
        !.FilledAmount = trade.Amount,
        !.RemainingAmount = 0,
        !.Rate = trade.Price,
        !.CreatedAt = trade.Timestamp,
        !.Side = ToLower(trade.Type)]

\* Gemini tradeHistoryToExchangeOrders
tradeHistoryToExchangeOrders(pastTrades) ==
    [i \in DOMAIN pastTrades |-> tradeToExchangeOrder(pastTrades[i])]

\* what the exchanges report
BinanceRawStatuses ==
    {OrderStatusNew, OrderStatusPartial, OrderStatusFilled,
     OrderStatusCanceled, OrderStatusPendingCancel, OrderStatusRejected,
     OrderStatusExpired, "SOMETHING_NEW"}
BinanceRawOrders ==
    {o \in [OrderID : {41}, Status : BinanceRawStatuses, OrigQty : 1..MaxQty,
            ExecutedQty : 0..MaxQty, Price : {3}, Time : {1500},
            Side : {"BUY", "SELL"}, Type : {OrderTypeLimit, "MARKET"}] :
        o.ExecutedQty <= o.OrigQty}
GeminiRawOrders ==
    {o \in [OrderID : {42}, IsLive : BOOLEAN, IsCancelled : BOOLEAN,
            OriginalAmount : 1..MaxQty, ExecutedAmount : 0..MaxQty,
            RemainingAmount : 0..MaxQty, Price : {3}, Timestamp : {1},
            Side : {"buy", "sell"}] :
        o.RemainingAmount = o.OriginalAmount - o.ExecutedAmount}
GeminiRawTrades ==
    [OrderID : {43}, Amount : 1..MaxQty, Price : {3}, Timestamp : {1},
     Type : {"Buy", "Sell"}]
RECURSIVE SeqsUpTo(_, _)
SeqsUpTo(S, n) ==
    IF n = 0 THEN {<<>>}
    ELSE SeqsUpTo(S, n - 1) \cup
         {Append(q, x) : q \in {r \in SeqsUpTo(S, n - 1) : Len(r) = n - 1},
                         x \in S}

OInit ==
    /\ oDriver = "none"
    /\ oRaw = <<>>
    /\ oOrders = <<>>

\* Binance.GetOrder converts the order it fetched
BinanceGetOrder ==
    \E order \in BinanceRawOrders :
        /\ oDriver' = "binance"
        /\ oRaw' = <<order>>
        /\ oOrders' = <<convertOrderToExchangeOrder(order)>>

\* Gemini.GetOrder converts the order status it fetched
GeminiGetOrder ==
    \E order \in GeminiRawOrders :
        /\ oDriver' = "gemini"
        /\ oRaw' = <<order>>
        /\ oOrders' = <<orderToExchangeOrder(order)>>

\* a trade history fetched from Gemini is converted
GeminiTradeHistory ==
    \E pastTrades \in SeqsUpTo(GeminiRawTrades, MaxTrades) :
        /\ oDriver' = "geminiTrades"
        /\ oRaw' = pastTrades
        /\ oOrders' = tradeHistoryToExchangeOrders(pastTrades)

----------------------------------------------------------------------------
(***************************************************************************)
(* The market data cache and the get-or-update readers of Binance and      *)
(* Liqui.                                                                  *)
(***************************************************************************)
BinanceName == "Binance"
LiquiName == "Liqui"
Spot == "SPOT"
AssetTypes == {Spot}
Pairs == {[FirstCurrency |-> "ETH", SecondCurrency |-> "BTC"],
          [FirstCurrency |-> "LTC", SecondCurrency |-> "BTC"]}
Keys == {BinanceName, LiquiName} \X Pairs \X AssetTypes

\* b.CurrencyPairToSymbol(p): the two codes, no delimiter
CurrencyPairToSymbol(p) == <<p.FirstCurrency, p.SecondCurrency>>
Symbols == {CurrencyPairToSymbol(p) : p \in Pairs}
\* exchange.FormatExchangeCurrency(l.Name, p).String(): lower case, "_"
FormatExchangeCurrency(p) ==
    <<ToLower(p.FirstCurrency), "_", ToLower(p.SecondCurrency)>>

EmptyBook == [Bids |-> <<>>, Asks |-> <<>>]
NoBook == [Missing |-> TRUE]
EmptyTicker ==
    [Pair |-> <<>>, Ask |-> 0, Bid |-> 0, Last |-> 0, Low |-> 0, High |-> 0,
     Volume |-> 0]
NoTicker == [Missing |-> TRUE]
NoMarketData == [Nil |-> TRUE]
EmptyMarketData == [Asks |-> <<>>, Bids |-> <<>>]

ErrNil == "nil"
WarningHTTPRequestRateLimited == "rate limited"
ErrFetch == "fetch failed"
ErrNotFound == "not found"
Panic == "panic"

\* the cache: get signals "not found", put replaces the snapshot wholesale
GetOrderbook(cache, name, p, assetType) ==
    IF cache[<<name, p, assetType>>] = NoBook
    THEN [book |-> EmptyBook, err |-> ErrNotFound]
    ELSE [book |-> cache[<<name, p, assetType>>], err |-> ErrNil]

ProcessOrderbook(cache, name, p, book, assetType) ==
    [cache EXCEPT ![<<name, p, assetType>>] = book]

GetTicker(cache, name, p, assetType) ==
    IF cache[<<name, p, assetType>>] = NoTicker
    THEN [price |-> EmptyTicker, err |-> ErrNotFound]
    ELSE [price |-> cache[<<name, p, assetType>>], err |-> ErrNil]

ProcessTicker(cache, name, p, tp, assetType) ==
    [cache EXCEPT ![<<name, p, assetType>>] = tp]

\* what the exchanges answer
BidLevels == {[Price |-> 1, Quantity |-> 5], [Price |-> 2, Quantity |-> 6]}
AskLevels == {[Price |-> 3, Quantity |-> 7]}
Sides(levels) ==
    {q \in SeqsUpTo(levels, MaxDepth) :
        \A i, j \in DOMAIN q : i # j => q[i] # q[j]}
MarketDatas ==
    {[Asks |-> a, Bids |-> b] : a \in Sides(AskLevels), b \in Sides(BidLevels)}
FetchAnswers ==
    {[kind |-> "ok", data |-> md] : md \in MarketDatas}
        \cup {[kind |-> "rateLimited", data |-> NoMarketData],
              [kind |-> "error", data |-> NoMarketData]}
\* Liqui reports each level as the array [price, amount]
LiquiDepth(md) ==
    [Bids |-> [i \in DOMAIN md.Bids |->
                   <<md.Bids[i].Price, md.Bids[i].Quantity>>],
     Asks |-> [i \in DOMAIN md.Asks |->
                   <<md.Asks[i].Price, md.Asks[i].Quantity>>]]
DepthAnswers ==
    {[kind |-> "ok", data |-> LiquiDepth(md)] : md \in MarketDatas}
        \cup {[kind |-> "error", data |-> NoMarketData]}
LiquiTickers ==
    {[High |-> 9, Low |-> 1, Last |-> 5, Buy |-> 4, Sell |-> 6, Vol_cur |-> 7],
     [High |-> 9, Low |-> 2, Last |-> 3, Buy |-> 3, Sell |-> 4, Vol_cur |-> 8]}
TickerAnswers ==
    {[kind |-> "ok",
      data |-> [c \in {FormatExchangeCurrency(x) : x \in Pairs} |-> t]] :
        t \in LiquiTickers}
        \cup {[kind |-> "error", data |-> NoMarketData]}

\* Binance.FetchMarketData: a rate limited fetch returns the market data of
\* the last successful fetch of the symbol with the rate limited sentinel
FetchMarketData(last, symbol, answer) ==
    CASE answer.kind = "ok" ->
             [marketData |-> answer.data, err |-> ErrNil,
              last |-> [last EXCEPT ![symbol] = answer.data]]
      [] answer.kind = "rateLimited" ->
             [marketData |-> IF last[symbol] # NoMarketData THEN last[symbol]
                             ELSE nilPolicy,
              err |-> WarningHTTPRequestRateLimited,
              last |-> last]
      [] OTHER ->
             [marketData |-> NoMarketData, err |-> ErrFetch, last |-> last]

\* the two loops of Binance.UpdateOrderbook that fill book.Asks and book.Bids
BinanceBook(marketData) ==
    [Bids |-> [x \in DOMAIN marketData.Bids |->
                  [Price |-> marketData.Bids[x].Price,
                   Amount |-> marketData.Bids[x].Quantity]],
     Asks |-> [x \in DOMAIN marketData.Asks |->
                  [Price |-> marketData.Asks[x].Price,
                   Amount |-> marketData.Asks[x].Quantity]]]

\* an UpdateOrderbook that gives up on every fetch error
BinanceUpdateOrderbook_NoFallback(cache, last, p, assetType, answer) ==
    LET f == FetchMarketData(last, CurrencyPairToSymbol(p), answer)
        book == BinanceBook(f.marketData)
        put == ProcessOrderbook(cache, BinanceName, p, book, assetType)
        got == GetOrderbook(put, BinanceName, p, assetType)
    IN  IF f.err # ErrNil
        THEN [Orderbooks |-> cache, last |-> f.last, value |-> EmptyBook,
              err |-> f.err, data |-> NoMarketData, fetched |-> TRUE]
        ELSE [Orderbooks |-> put, last |-> f.last, value |-> got.book,
              err |-> got.err, data |-> f.marketData,
              fetched |-> TRUE]

\* Binance.UpdateOrderbook
BinanceUpdateOrderbook(cache, last, p, assetType, answer) ==
    LET f == FetchMarketData(last, CurrencyPairToSymbol(p), answer)
        book == BinanceBook(f.marketData)
        put == ProcessOrderbook(cache, BinanceName, p, book, assetType)
        got == GetOrderbook(put, BinanceName, p, assetType)
    IN  IF f.err # ErrNil /\ f.err # WarningHTTPRequestRateLimited
        THEN [Orderbooks |-> cache, last |-> f.last, value |-> EmptyBook,
              err |-> f.err, data |-> NoMarketData, fetched |-> TRUE]
        ELSE IF f.marketData = NoMarketData
        THEN [Orderbooks |-> cache, last |-> f.last, value |-> EmptyBook,
              err |-> Panic, data |-> NoMarketData, fetched |-> TRUE]
        ELSE [Orderbooks |-> put, last |-> f.last, value |-> got.book,
              err |-> got.err, data |-> f.marketData,
              fetched |-> TRUE]

\* Binance.GetOrderbookEx
BinanceGetOrderbookEx(cache, last, p, assetType, answer) ==
    LET ob == GetOrderbook(cache, BinanceName, p, assetType)
    IN  IF ob.err = ErrNil
        THEN BinanceUpdateOrderbook(cache, last, p, assetType, answer)
        ELSE [Orderbooks |-> cache, last |-> last, value |-> ob.book,
              err |-> ErrNil, data |-> NoMarketData, fetched |-> FALSE]

\* a Liqui book builder that reads the level arrays as [amount, price]
LiquiBook_AmountFirst(orderbookNew) ==
    [Bids |-> [x \in DOMAIN orderbookNew.Bids |->
                  [Amount |-> orderbookNew.Bids[x][1],
                   Price |-> orderbookNew.Bids[x][2]]],
     Asks |-> [x \in DOMAIN orderbookNew.Asks |->
                  [Amount |-> orderbookNew.Asks[x][1],
                   Price |-> orderbookNew.Asks[x][2]]]]

\* the two loops of Liqui.UpdateOrderbook
LiquiBook(orderbookNew) ==
    [Bids |-> [x \in DOMAIN orderbookNew.Bids |->
                  [Amount |-> orderbookNew.Bids[x][2],
                   Price |-> orderbookNew.Bids[x][1]]],
     Asks |-> [x \in DOMAIN orderbookNew.Asks |->
                  [Amount |-> orderbookNew.Asks[x][2],
                   Price |-> orderbookNew.Asks[x][1]]]]

\* Liqui.UpdateOrderbook
\* an UpdateOrderbook that empties the cached book when the fetch fails
LiquiUpdateOrderbook_EvictsOnError(cache, p, assetType, answer) ==
    LET put == ProcessOrderbook(cache, LiquiName, p, LiquiBook(answer.data),
                                assetType)
        got == GetOrderbook(put, LiquiName, p, assetType)
    IN  IF answer.kind # "ok"
        THEN [Orderbooks |-> [cache EXCEPT ![<<LiquiName, p, assetType>>]
                                               = EmptyBook],
              value |-> EmptyBook, err |-> ErrFetch,
              data |-> NoMarketData, fetched |-> TRUE]
        ELSE [Orderbooks |-> put, value |-> got.book, err |-> got.err,
              data |-> answer.data, fetched |-> TRUE]

LiquiUpdateOrderbook(cache, p, assetType, answer) ==
    LET put == ProcessOrderbook(cache, LiquiName, p, LiquiBook(answer.data),
                                assetType)
        got == GetOrderbook(put, LiquiName, p, assetType)
    IN  IF answer.kind # "ok"
        THEN [Orderbooks |-> cache, value |-> EmptyBook, err |-> ErrFetch,
              data |-> NoMarketData, fetched |-> TRUE]
        ELSE [Orderbooks |-> put, value |-> got.book, err |-> got.err,
              data |-> answer.data, fetched |-> TRUE]

\* Liqui.GetOrderbookEx
LiquiGetOrderbookEx(cache, p, assetType, answer) ==
    LET ob == GetOrderbook(cache, LiquiName, p, assetType)
    IN  IF ob.err = ErrNil
        THEN LiquiUpdateOrderbook(cache, p, assetType, answer)
        ELSE [Orderbooks |-> cache, value |-> ob.book, err |-> ErrNil,
              data |-> NoMarketData, fetched |-> FALSE]

\* the ticker.Price Liqui.UpdateTicker builds for the enabled pair x
LiquiTickerPrice(x, result) ==
    LET currency == FormatExchangeCurrency(x)
    IN  [EmptyTicker EXCEPT !.Pair = x,
                            !.Last = result[currency].Last,
                            !.Ask = result[currency].Sell,
                            !.Bid = result[currency].Buy,
                            !.Low = result[currency].Low,
                            !.Volume = result[currency].Vol_cur]

\* Liqui.UpdateTicker: every enabled pair is processed, then p is read back
LiquiUpdateTicker(cache, p, assetType, answer) ==
    LET put == [key \in Keys |->
                   IF key[1] = LiquiName /\ key[3] = assetType
                   THEN LiquiTickerPrice(key[2], answer.data)
                   ELSE cache[key]]
        got == GetTicker(put, LiquiName, p, assetType)
    IN  IF answer.kind # "ok"
        THEN [Tickers |-> cache, value |-> EmptyTicker, err |-> ErrFetch,
              data |-> NoMarketData, fetched |-> TRUE]
        ELSE [Tickers |-> put, value |-> got.price, err |-> got.err,
              data |-> answer.data, fetched |-> TRUE]

\* Liqui.GetTickerPrice
LiquiGetTickerPrice(cache, p, assetType, answer) ==
    LET tickerNew == GetTicker(cache, LiquiName, p, assetType)
    IN  IF tickerNew.err # ErrNil
        THEN LiquiUpdateTicker(cache, p, assetType, answer)
        ELSE [Tickers |-> cache, value |-> tickerNew.price, err |-> ErrNil,
              data |-> NoMarketData, fetched |-> FALSE]

NoCall == [op |-> "none"]
\* what is recorded of a call: its arguments, the cache entry it found, the
\* exchange's answer and what it returned
Call(op, p, assetType, before, answer, r) ==
    [op |-> op, pair |-> p, assetType |-> assetType, before |-> before,
     answer |-> answer.kind, fetched |-> r.fetched, data |-> r.data,
     value |-> r.value, err |-> r.err]

MInit ==
    /\ mName \in {BinanceName, LiquiName}
    /\ nilPolicy \in {NoMarketData, EmptyMarketData}
    /\ mName = LiquiName => nilPolicy = NoMarketData
    /\ Orderbooks = [key \in Keys |-> NoBook]
    /\ Tickers = [key \in Keys |-> NoTicker]
    /\ lastMarketData = [sym \in Symbols |-> NoMarketData]
    /\ mFetched = [key \in Keys |-> NoMarketData]
    /\ mLast = NoCall

\* the caches and records after a call that returned r for <<name, p, a>>
BookCallDone(op, name, p, assetType, answer, r) ==
    /\ Orderbooks' = r.Orderbooks
    /\ mFetched' = IF r.fetched /\ r.err = ErrNil
                   THEN [mFetched EXCEPT ![<<name, p, assetType>>] = r.data]
                   ELSE mFetched
    /\ mLast' = Call(op, p, assetType, Orderbooks[<<name, p, assetType>>],
                     answer, r)

CallBinanceUpdateOrderbook ==
    \E p \in Pairs, assetType \in AssetTypes, answer \in FetchAnswers :
        LET r == BinanceUpdateOrderbook(Orderbooks, lastMarketData, p,
                                         assetType, answer)
        IN  /\ mName = BinanceName
            /\ BookCallDone("UpdateOrderbook", BinanceName, p, assetType,
                            answer, r)
            /\ lastMarketData' = r.last
            /\ UNCHANGED <<mName, nilPolicy, Tickers>>

CallBinanceGetOrderbookEx ==
    \E p \in Pairs, assetType \in AssetTypes, answer \in FetchAnswers :
        LET r == BinanceGetOrderbookEx(Orderbooks, lastMarketData, p,
                                       assetType, answer)
        IN  /\ mName = BinanceName
            /\ BookCallDone("GetOrderbookEx", BinanceName, p, assetType,
                            answer, r)
            /\ lastMarketData' = r.last
            /\ UNCHANGED <<mName, nilPolicy, Tickers>>

CallLiquiUpdateOrderbook ==
    \E p \in Pairs, assetType \in AssetTypes, answer \in DepthAnswers :
        LET r == LiquiUpdateOrderbook(Orderbooks, p, assetType, answer)
        IN  /\ mName = LiquiName
            /\ BookCallDone("UpdateOrderbook", LiquiName, p, assetType,
                            answer, r)
            /\ UNCHANGED <<mName, nilPolicy, Tickers, lastMarketData>>

CallLiquiGetOrderbookEx ==
    \E p \in Pairs, assetType \in AssetTypes, answer \in DepthAnswers :
        LET r == LiquiGetOrderbookEx(Orderbooks, p, assetType, answer)
        IN  /\ mName = LiquiName
            /\ BookCallDone("GetOrderbookEx", LiquiName, p, assetType,
                            answer, r)
            /\ UNCHANGED <<mName, nilPolicy, Tickers, lastMarketData>>

CallLiquiUpdateTicker ==
    \E p \in Pairs, assetType \in AssetTypes, answer \in TickerAnswers :
        LET r == LiquiUpdateTicker(Tickers, p, assetType, answer)
        IN  /\ mName = LiquiName
            /\ Tickers' = r.Tickers
            /\ mLast' = Call("UpdateTicker", p, assetType,
                             Tickers[<<LiquiName, p, assetType>>], answer, r)
            /\ UNCHANGED <<mName, nilPolicy, Orderbooks, lastMarketData,
                           mFetched>>

CallLiquiGetTickerPrice ==
    \E p \in Pairs, assetType \in AssetTypes, answer \in TickerAnswers :
        LET r == LiquiGetTickerPrice(Tickers, p, assetType, answer)
        IN  /\ mName = LiquiName
            /\ Tickers' = r.Tickers
            /\ mLast' = Call("GetTickerPrice", p, assetType,
                             Tickers[<<LiquiName, p, assetType>>], answer, r)
            /\ UNCHANGED <<mName, nilPolicy, Orderbooks, lastMarketData,
                           mFetched>>

----------------------------------------------------------------------------
(***************************************************************************)
(* Several goroutines update and read the order books of one instance.     *)
(* UpdateOrderbook is three steps: the fetch that builds the local book,   *)
(* the put into the cache and the read-back.  A put and a get of the cache *)
(* are one step each.                                                      *)
(***************************************************************************)
Updaters == 1..NumUpdaters
Reader == 0
UIdle == [pc |-> "idle"]
NoRead == [by |-> "none"]

\* the market data the exchange answers while the goroutines overlap
OverlapDatas ==
    {md \in MarketDatas :
        \/ Len(md.Bids) = 2 /\ Len(md.Asks) = 1
        \/ Len(md.Bids) = 1 /\ Len(md.Asks) = 0}

UInit ==
    /\ uProc = [u \in Updaters |-> UIdle]
    /\ uCalls = [u \in Updaters |-> 0]
    /\ uWritten = [key \in Keys |-> {}]
    /\ uRead = NoRead

\* UpdateOrderbook up to its call of ProcessOrderbook: the fetch and the
\* loops that build the local book
UFetchBinance(u, p, answer) ==
    LET f == FetchMarketData(lastMarketData, CurrencyPairToSymbol(p), answer)
    IN  /\ mName = BinanceName
        /\ uProc[u].pc = "idle"
        /\ uCalls[u] < MaxUpd
        /\ uCalls' = [uCalls EXCEPT ![u] = @ + 1]
        /\ lastMarketData' = f.last
        /\ uProc' = [uProc EXCEPT ![u] =
               IF (f.err # ErrNil /\ f.err # WarningHTTPRequestRateLimited)
                      \/ f.marketData = NoMarketData
               THEN UIdle
               ELSE [pc |-> "process", pair |-> p, assetType |-> Spot,
                     book |-> BinanceBook(f.marketData)]]
        /\ UNCHANGED <<mName, nilPolicy, Orderbooks, Tickers, mFetched, mLast,
                       uWritten, uRead>>

UFetchLiqui(u, p, answer) ==
    /\ mName = LiquiName
    /\ uProc[u].pc = "idle"
    /\ uCalls[u] < MaxUpd
    /\ uCalls' = [uCalls EXCEPT ![u] = @ + 1]
    /\ uProc' = [uProc EXCEPT ![u] =
           IF answer.kind # "ok"
           THEN UIdle
           ELSE [pc |-> "process", pair |-> p, assetType |-> Spot,
                 book |-> LiquiBook(answer.data)]]
    /\ UNCHANGED <<mvars, uWritten, uRead>>

\* a put that files the book under every pair of the instance
UProcessOrderbook_EveryPair(u) ==
    /\ uProc[u].pc = "process"
    /\ Orderbooks' = [key \in Keys |->
           IF key[1] = mName THEN uProc[u].book ELSE Orderbooks[key]]
    /\ uWritten' = [uWritten EXCEPT
           ![<<mName, uProc[u].pair, uProc[u].assetType>>] =
               @ \cup {uProc[u].book}]
    /\ uProc' = [uProc EXCEPT ![u].pc = "get"]
    /\ UNCHANGED <<mName, nilPolicy, Tickers, lastMarketData, mFetched, mLast,
                   uCalls, uRead>>

\* Orderbooks.ProcessOrderbook(Name, p, book, assetType)
UProcessOrderbook(u) ==
    /\ uProc[u].pc = "process"
    /\ Orderbooks' = ProcessOrderbook(Orderbooks, mName, uProc[u].pair,
                                      uProc[u].book, uProc[u].assetType)
    /\ uWritten' = [uWritten EXCEPT
           ![<<mName, uProc[u].pair, uProc[u].assetType>>] =
               @ \cup {uProc[u].book}]
    /\ uProc' = [uProc EXCEPT ![u].pc = "get"]
    /\ UNCHANGED <<mName, nilPolicy, Tickers, lastMarketData, mFetched, mLast,
                   uCalls, uRead>>

\* return Orderbooks.GetOrderbook(Name, p, assetType)
UGetOrderbook(u) ==
    LET got == GetOrderbook(Orderbooks, mName, uProc[u].pair,
                            uProc[u].assetType)
    IN  /\ uProc[u].pc = "get"
        /\ uRead' = [by |-> u, pair |-> uProc[u].pair,
                     assetType |-> uProc[u].assetType,
                     own |-> uProc[u].book,
                     written |-> uWritten[<<mName, uProc[u].pair,
                                            uProc[u].assetType>>],
                     book |-> got.book, err |-> got.err]
        /\ uProc' = [uProc EXCEPT ![u] = UIdle]
        /\ UNCHANGED <<mvars, uCalls, uWritten>>

\* another goroutine reads a key of the cache
UReadOrderbook(p, assetType) ==
    LET got == GetOrderbook(Orderbooks, mName, p, assetType)
    IN  /\ uRead' = [by |-> Reader, pair |-> p, assetType |-> assetType,
                     own |-> NoBook,
                     written |-> uWritten[<<mName, p, assetType>>],
                     book |-> got.book, err |-> got.err]
        /\ UNCHANGED <<mvars, uProc, uCalls, uWritten>>

----------------------------------------------------------------------------
(***************************************************************************)
(* Single driver calls: what one call returns for what the exchange        *)
(* answers.                                                                *)
(***************************************************************************)
NoSymbol == <<>>            \* the symbol "" of FetchOpenOrders("")
OrderSymbols == Symbols \cup {NoSymbol}
NilOrders == [Nil |-> TRUE]     \* a nil slice of orders
NoDriverCall == [op |-> "none"]

\* the open orders the exchange reports
OpenOrders ==
    {o \in BinanceRawOrders :
        /\ o.Status \in {OrderStatusNew, OrderStatusPartial}
        /\ o.OrigQty = MaxQty
        /\ o.ExecutedQty = IF o.Status = OrderStatusNew THEN 0 ELSE 1
        /\ o.Side = "BUY"
        /\ o.Type = OrderTypeLimit}
OpenOrderLists == {<<>>} \cup {<<o>> : o \in OpenOrders}
OpenOrderAnswers ==
    {[kind |-> "ok", orders |-> l] : l \in OpenOrderLists}
        \cup {[kind |-> "rateLimited", orders |-> <<>>],
              [kind |-> "error", orders |-> <<>>]}

\* Binance.FetchOpenOrders: a rate limited fetch returns the orders of the
\* last successful fetch of the symbol with the rate limited sentinel
FetchOpenOrders(last, symbol, answer) ==
    CASE answer.kind = "ok" ->
             [orders |-> answer.orders, err |-> ErrNil,
              last |-> [last EXCEPT ![symbol] = answer.orders]]
      [] answer.kind = "rateLimited" ->
             [orders |-> last[symbol],
              err |-> WarningHTTPRequestRateLimited, last |-> last]
      [] OTHER ->
             [orders |-> <<>>, err |-> ErrFetch, last |-> last]

\* for _, order := range orders { ret = append(ret, convert(&order)) }
ConvertOrders(orders) ==
    [i \in DOMAIN orders |-> convertOrderToExchangeOrder(orders[i])]

\* the loop of GetOrders over the requested pairs, from the i-th pair on
RECURSIVE GetOrdersLoop(_, _, _, _, _, _)
GetOrdersLoop(last, pairs, answers, i, ret, rateLimitedPairCount) ==
    IF i > Len(pairs)
    THEN [orders |-> ret,
          err |-> IF rateLimitedPairCount = Len(pairs)
                  THEN WarningHTTPRequestRateLimited ELSE ErrNil,
          last |-> last]
    ELSE LET f == FetchOpenOrders(last, CurrencyPairToSymbol(pairs[i]),
                                  answers[i])
         IN  IF f.err # WarningHTTPRequestRateLimited /\ f.err # ErrNil
             THEN [orders |-> NilOrders, err |-> f.err, last |-> f.last]
             ELSE GetOrdersLoop(f.last, pairs, answers, i + 1,
                                ret \o ConvertOrders(f.orders),
                                IF f.err = WarningHTTPRequestRateLimited
                                THEN rateLimitedPairCount + 1
                                ELSE rateLimitedPairCount)

\* Binance.GetOrders
GetOrders(last, pairs, answers) ==
    IF Len(pairs) > 0
    THEN GetOrdersLoop(last, pairs, answers, 1, <<>>, 0)
    ELSE LET f == FetchOpenOrders(last, NoSymbol, answers[1])
         IN  IF f.err # WarningHTTPRequestRateLimited /\ f.err # ErrNil
             THEN [orders |-> NilOrders, err |-> f.err, last |-> f.last]
             ELSE [orders |-> ConvertOrders(f.orders), err |-> f.err,
                   last |-> f.last]

\* the pairs a caller asks the orders of: no pair twice
PairLists ==
    {q \in SeqsUpTo(Pairs, MaxPairs) :
        \A i, j \in DOMAIN q : i # j => q[i] # q[j]}

DInit ==
    /\ lastOpenOrders = [sym \in OrderSymbols |-> <<>>]
    /\ kTicker = <<>>
    /\ dLast = NoDriverCall

CallGetOrders ==
    \E pairs \in PairLists :
        \E answers \in [1..(IF Len(pairs) = 0 THEN 1 ELSE Len(pairs)) ->
                            OpenOrderAnswers] :
            LET r == GetOrders(lastOpenOrders, pairs, answers)
            IN  /\ lastOpenOrders' = r.last
                /\ dLast' = [op |-> "GetOrders", pairs |-> pairs,
                             answers |-> answers, before |-> lastOpenOrders,
                             orders |-> r.orders, err |-> r.err]
                /\ UNCHANGED kTicker

\* strings.ToUpper on currency codes
ToUpper(str) ==
    CASE str = "eth" -> "ETH"
      [] str = "btc" -> "BTC"
      [] str = "ltc" -> "LTC"
      [] str = "usd" -> "USD"
      [] OTHER -> str

\* p.Display("/", false): the two codes in lower case with the delimiter
Display(p) == <<ToLower(p.FirstCurrency), "/", ToLower(p.SecondCurrency)>>

\* the pairs callers ask the limits of
LimitPairs ==
    Pairs \cup {[FirstCurrency |-> "eth", SecondCurrency |-> "btc"],
                [FirstCurrency |-> "BTC", SecondCurrency |-> "USD"],
                [FirstCurrency |-> "LTC", SecondCurrency |-> "USD"]}

\* Binance: the symbolDetailsMap that Run filled from the exchange info
SymbolDetails ==
    [PriceDecimalPlaces : {0, 8}, AmountDecimalPlaces : {0, 3}]
SymbolDetailsMaps ==
    {[key \in keys |-> sd] :
        keys \in SUBSET {Display(q) : q \in Pairs}, sd \in SymbolDetails}

\* Binance currencyLimits.GetPriceDecimalPlaces
BinanceGetPriceDecimalPlaces(data, p) ==
    IF Display(p) \in DOMAIN data
    THEN data[Display(p)].PriceDecimalPlaces
    ELSE 0

\* Binance currencyLimits.GetAmountDecimalPlaces
BinanceGetAmountDecimalPlaces(data, p) ==
    IF Display(p) \in DOMAIN data
    THEN data[Display(p)].AmountDecimalPlaces
    ELSE 0

\* Gemini newCurrencyLimits: the info map
GeminiLimitsInfo ==
    (<<"BTC", "USD">> :> [PriceDecimalPlaces |-> 2, AmountDecimalPlaces |-> 8])
        @@ (<<"ETH", "USD">> :>
                [PriceDecimalPlaces |-> 2, AmountDecimalPlaces |-> 6])
        @@ (<<"ETH", "BTC">> :>
                [PriceDecimalPlaces |-> 5, AmountDecimalPlaces |-> 6])

\* strings.ToUpper(p.FirstCurrency.String() + p.SecondCurrency.String())
GeminiLimitsKey(p) == <<ToUpper(p.FirstCurrency), ToUpper(p.SecondCurrency)>>

\* Gemini currencyLimits.GetPriceDecimalPlaces
GeminiGetPriceDecimalPlaces(info, p) ==
    IF GeminiLimitsKey(p) \in DOMAIN info
    THEN info[GeminiLimitsKey(p)].PriceDecimalPlaces
    ELSE -1

\* Gemini currencyLimits.GetAmountDecimalPlaces
GeminiGetAmountDecimalPlaces(info, p) ==
    IF GeminiLimitsKey(p) \in DOMAIN info
    THEN info[GeminiLimitsKey(p)].AmountDecimalPlaces
    ELSE -1

CallBinanceLimits ==
    \E data \in SymbolDetailsMaps, p \in LimitPairs :
        /\ dLast' = [op |-> "Limits", driver |-> BinanceName, pair |-> p,
                     defined |-> Display(p) \in DOMAIN data,
                     price |-> BinanceGetPriceDecimalPlaces(data, p),
                     amount |-> BinanceGetAmountDecimalPlaces(data, p)]
        /\ UNCHANGED <<lastOpenOrders, kTicker>>

CallGeminiLimits ==
    \E p \in LimitPairs :
        /\ dLast' = [op |-> "Limits", driver |-> "Gemini", pair |-> p,
                     defined |-> GeminiLimitsKey(p) \in DOMAIN GeminiLimitsInfo,
                     price |-> GeminiGetPriceDecimalPlaces(GeminiLimitsInfo, p),
                     amount |->
                         GeminiGetAmountDecimalPlaces(GeminiLimitsInfo, p)]
        /\ UNCHANGED <<lastOpenOrders, kTicker>>

\* a string is the sequence of its characters
Digits == {"0", "1", "2", "3", "4", "5", "6", "7", "8", "9"}
DigitValue(ch) ==
    CASE ch = "0" -> 0 [] ch = "1" -> 1 [] ch = "2" -> 2 [] ch = "3" -> 3
      [] ch = "4" -> 4 [] ch = "5" -> 5 [] ch = "6" -> 6 [] ch = "7" -> 7
      [] ch = "8" -> 8 [] OTHER -> 9
ErrSyntax == "strconv.ParseFloat: invalid syntax"

RECURSIVE DecimalValue(_)
DecimalValue(str) ==
    IF str = <<>> THEN 0
    ELSE 10 * DecimalValue(SubSeq(str, 1, Len(str) - 1))
             + DigitValue(str[Len(str)])

\* strconv.ParseFloat(str, 64) on the whole numbers the model uses: the
\* value and a nil error, or 0 and a syntax error
ParseFloat(str) ==
    IF str # <<>> /\ \A i \in DOMAIN str : str[i] \in Digits
    THEN [value |-> DecimalValue(str), err |-> ErrNil]
    ELSE [value |-> 0, err |-> ErrSyntax]

\* what Kraken answers a ticker request with
GoodTickerResponse ==
    [Ask |-> <<"7">>, Bid |-> <<"6">>, Last |-> <<"5">>,
     Volume |-> <<"1", "2">>, VWAP |-> <<"4">>, Trades |-> 11,
     Low |-> <<"3">>, High |-> <<"9">>, Open |-> <<"8">>]
NotANumber == <<"n", "a", "n", "?">>
KrakenTickerResponses ==
    {GoodTickerResponse,
     [GoodTickerResponse EXCEPT !.Ask = NotANumber],
     [GoodTickerResponse EXCEPT !.Bid = <<>>],
     [GoodTickerResponse EXCEPT !.Last = NotANumber],
     [GoodTickerResponse EXCEPT !.Volume = NotANumber],
     [GoodTickerResponse EXCEPT !.Low = NotANumber],
     [GoodTickerResponse EXCEPT !.High = NotANumber]}
KrakenPairNames ==
    {<<"X", "E", "T", "H", "Z", "U", "S", "D">>,
     <<"X", "L", "T", "C", "Z", "U", "S", "D">>,
     <<"B", "C", "H", "U", "S", "D">>}
KrakenErrorStrings == {<<"EQuery:Unknown asset pair">>,
                       <<"EGeneral:Invalid arguments", "EService:Busy">>}
KrakenTickerAnswers ==
    {[kind |-> "ok", Error |-> <<>>, Data |-> [x \in {name} |-> y]] :
        name \in KrakenPairNames, y \in KrakenTickerResponses}
        \cup {[kind |-> "ok", Error |-> e, Data |-> <<>>] :
                 e \in KrakenErrorStrings}
        \cup {[kind |-> "transportError", Error |-> <<>>, Data |-> <<>>]}

\* x = x[1:4] + x[5:]
KrakenTickerKey(x) == SubSeq(x, 2, 4) \o SubSeq(x, 6, Len(x))

\* the KrakenTicker GetTicker builds from one entry of the response
KrakenTickerOf(y) ==
    [Ask |-> ParseFloat(y.Ask).value,
     Bid |-> ParseFloat(y.Bid).value,
     Last |-> ParseFloat(y.Last).value,
     Volume |-> ParseFloat(y.Volume).value,
     VWAP |-> ParseFloat(y.VWAP).value,
     Trades |-> y.Trades,
     Low |-> ParseFloat(y.Low).value,
     High |-> ParseFloat(y.High).value,
     Open |-> ParseFloat(y.Open).value]

\* fmt.Sprintf("Kraken error: %s", resp.Error): the strings of the slice
\* separated by spaces, in brackets, after the prefix
RECURSIVE SprintSlice(_)
SprintSlice(strs) ==
    IF strs = <<>> THEN <<>>
    ELSE IF Len(strs) = 1 THEN <<strs[1]>>
    ELSE <<strs[1], " ">> \o SprintSlice(Tail(strs))
KrakenTickerError(strs) ==
    <<"Kraken error: ", "[">> \o SprintSlice(strs) \o <<"]">>

\* Kraken.GetTicker: every entry of the response is stored in k.Ticker under
\* its shortened name
KrakenGetTicker(tickers, answer) ==
    IF answer.kind # "ok"
    THEN [Ticker |-> tickers, err |-> ErrFetch]
    ELSE IF Len(answer.Error) > 0
    THEN [Ticker |-> tickers, err |-> KrakenTickerError(answer.Error)]
    ELSE [Ticker |->
              [x \in DOMAIN tickers
                         \cup {KrakenTickerKey(n) : n \in DOMAIN answer.Data}
                  |->
                  IF \E n \in DOMAIN answer.Data : KrakenTickerKey(n) = x
                  THEN KrakenTickerOf(
                           answer.Data[CHOOSE n \in DOMAIN answer.Data :
                                           KrakenTickerKey(n) = x])
                  ELSE tickers[x]],
          err |-> ErrNil]

CallKrakenGetTicker ==
    \E answer \in KrakenTickerAnswers :
        LET r == KrakenGetTicker(kTicker, answer)
        IN  /\ kTicker' = r.Ticker
            /\ dLast' = [op |-> "KrakenGetTicker", answer |-> answer,
                         before |-> kTicker, err |-> r.err]
            /\ UNCHANGED lastOpenOrders

\* what Kraken answers a depth request with: entries [price, amount]
KrakenDepthEntries ==
    [bid |-> <<<<"6">>, <<"2">>>>, ask |-> <<<<"7">>, <<"3">>>>,
     badPrice |-> <<NotANumber, <<"2">>>>, badAmount |-> <<<<"6">>, <<>>>>]
KrakenDepthAnswers ==
    {[kind |-> "ok", Error |-> <<>>, bids |-> b, asks |-> a] :
        b \in {<<KrakenDepthEntries.bid>>,
               <<KrakenDepthEntries.bid, KrakenDepthEntries.badPrice>>,
               <<KrakenDepthEntries.badAmount>>},
        a \in {<<KrakenDepthEntries.ask>>,
               <<KrakenDepthEntries.ask, KrakenDepthEntries.badAmount>>}}
        \cup {[kind |-> "errorPayload", Error |-> e, bids |-> <<>>,
                 asks |-> <<>>] : e \in KrakenErrorStrings}
        \cup {[kind |-> "transportError", Error |-> <<>>, bids |-> <<>>,
               asks |-> <<>>]}

\* the closure processOrderbook of GetDepth, from entry x on
RECURSIVE KrakenProcessOrderbook(_, _, _)
KrakenProcessOrderbook(data, x, result) ==
    IF x > Len(data) THEN [result |-> result, err |-> ErrNil]
    ELSE LET price == ParseFloat(data[x][1])
             amount == ParseFloat(data[x][2])
         IN  IF price.err # ErrNil THEN [result |-> <<>>, err |-> price.err]
             ELSE IF amount.err # ErrNil
             THEN [result |-> <<>>, err |-> amount.err]
             ELSE KrakenProcessOrderbook(data, x + 1,
                      Append(result, [Price |-> price.value,
                                      Amount |-> amount.value]))

\* Kraken.GetDepth; an error payload carries no "result", and the type
\* assertion data["result"].(map[string]interface{}) on it panics
KrakenGetDepth(answer) ==
    LET bids == KrakenProcessOrderbook(answer.bids, 1, <<>>)
        asks == KrakenProcessOrderbook(answer.asks, 1, <<>>)
    IN  IF answer.kind = "transportError"
        THEN [ob |-> [Bids |-> <<>>, Asks |-> <<>>], err |-> ErrFetch]
        ELSE IF answer.kind = "errorPayload"
        THEN [ob |-> [Bids |-> <<>>, Asks |-> <<>>], err |-> Panic]
        ELSE IF bids.err # ErrNil
        THEN [ob |-> [Bids |-> bids.result, Asks |-> <<>>], err |-> bids.err]
        ELSE IF asks.err # ErrNil
        THEN [ob |-> [Bids |-> bids.result, Asks |-> asks.result],
              err |-> asks.err]
        ELSE [ob |-> [Bids |-> bids.result, Asks |-> asks.result],
              err |-> ErrNil]

CallKrakenGetDepth ==
    \E answer \in KrakenDepthAnswers :
        /\ dLast' = [op |-> "KrakenGetDepth", answer |-> answer,
                     ob |-> KrakenGetDepth(answer).ob,
                     err |-> KrakenGetDepth(answer).err]
        /\ UNCHANGED <<lastOpenOrders, kTicker>>

\* what Gemini answers a ticker request with; ask, bid and last are decoded
\* by the JSON decoder, the volume map holds strings
GeminiPairNames ==
    {<<"E", "T", "H", "U", "S", "D">>, <<"B", "T", "C", "U", "S", "D">>}
GeminiVolumes ==
    {(<<"E", "T", "H">> :> c) @@ (<<"U", "S", "D">> :> u)
         @@ (<<"timestamp">> :> 1500) :
        c \in {<<"1", "2">>, NotANumber}, u \in {<<"3", "4">>, <<>>}}
GeminiTickerAnswers ==
    {[kind |-> "ok", Ask |-> 7, Bid |-> 6, Last |-> 5, Volume |-> v] :
        v \in GeminiVolumes}
        \cup {[kind |-> "transportError", Ask |-> 0, Bid |-> 0, Last |-> 0,
               Volume |-> <<>>]}
GeminiZeroTicker ==
    [Ask |-> 0, Bid |-> 0, Last |-> 0,
     Volume |-> [Currency |-> 0, USD |-> 0, Timestamp |-> 0]]

\* Gemini.GetTicker; resp.Volume[key].(string) panics when the key is missing
GeminiGetTicker(currencyPair, answer) ==
    IF answer.kind # "ok"
    THEN [ticker |-> GeminiZeroTicker, err |-> ErrFetch]
    ELSE IF SubSeq(currencyPair, 1, 3) \notin DOMAIN answer.Volume
    THEN [ticker |-> GeminiZeroTicker, err |-> Panic]
    ELSE [ticker |->
              [Ask |-> answer.Ask, Bid |-> answer.Bid, Last |-> answer.Last,
               Volume |->
                   [Currency |->
                        ParseFloat(
                            answer.Volume[SubSeq(currencyPair, 1, 3)]).value,
                    USD |-> ParseFloat(answer.Volume[<<"U", "S", "D">>]).value,
                    Timestamp |-> answer.Volume[<<"timestamp">>]]],
          err |-> ErrNil]

CallGeminiGetTicker ==
    \E currencyPair \in GeminiPairNames, answer \in GeminiTickerAnswers :
        /\ dLast' = [op |-> "GeminiGetTicker", pair |-> currencyPair,
                     answer |-> answer,
                     ticker |-> GeminiGetTicker(currencyPair, answer).ticker,
                     err |-> GeminiGetTicker(currencyPair, answer).err]
        /\ UNCHANGED <<lastOpenOrders, kTicker>>

\* strings.Join(strs, sep)
RECURSIVE Join(_, _)
Join(strs, sep) ==
    IF strs = <<>> THEN <<>>
    ELSE IF Len(strs) = 1 THEN <<strs[1]>>
    ELSE <<strs[1], sep>> \o Join(Tail(strs), sep)

\* what Kraken answers a request made through HTTPRequestJSON with
KrakenResponses ==
    {[sendErr |-> ErrNil, Errors |-> e, Result |-> res] :
        e \in KrakenErrorStrings \cup {<<>>}, res \in {"null", "{...}"}}
        \cup {[sendErr |-> ErrFetch, Errors |-> <<>>, Result |-> "null"]}

\* Kraken.HTTPRequestJSON, after either way of sending
KrakenHTTPRequestJSON(response) ==
    IF response.sendErr # ErrNil
    THEN [result |-> "nil", err |-> response.sendErr]
    ELSE IF Len(response.Errors) > 0
    THEN [result |-> response.Result, err |-> Join(response.Errors, "\n")]
    ELSE [result |-> response.Result, err |-> ErrNil]

CallKrakenHTTPRequestJSON ==
    \E response \in KrakenResponses :
        /\ dLast' = [op |-> "KrakenHTTPRequestJSON", answer |-> response,
                     result |-> KrakenHTTPRequestJSON(response).result,
                     err |-> KrakenHTTPRequestJSON(response).err]
        /\ UNCHANGED <<lastOpenOrders, kTicker>>

\* the bodies Gemini answers an authenticated request with: whether the
\* body decodes into ErrorCapture, the three fields it then holds, and
\* whether it decodes into the caller's result
GeminiBodies ==
    {[object |-> TRUE, Result |-> "error", Reason |-> "InsufficientFunds",
      Message |-> "Failed to place buy order", decodes |-> TRUE],
     [object |-> TRUE, Result |-> "error", Reason |-> "Maintenance",
      Message |-> "", decodes |-> TRUE],
     [object |-> TRUE, Result |-> "ok", Reason |-> "", Message |-> "",
      decodes |-> TRUE],
     [object |-> TRUE, Result |-> "", Reason |-> "", Message |-> "",
      decodes |-> TRUE],
     [object |-> TRUE, Result |-> "", Reason |-> "", Message |-> "",
      decodes |-> FALSE],
     [object |-> FALSE, Result |-> "", Reason |-> "", Message |-> "",
      decodes |-> TRUE],
     [object |-> FALSE, Result |-> "", Reason |-> "", Message |-> "",
      decodes |-> FALSE]}
ErrJSONDecode == "json: cannot unmarshal"

\* the end of Gemini.SendAuthenticatedHTTPRequest: the error capture and the
\* decoding of the body into the result
GeminiCaptureError(body) ==
    IF /\ body.object
       /\ (body.Message # "" \/ body.Result # "" \/ body.Reason # "")
       /\ body.Result # "ok"
    THEN [err |-> <<body.Message>>, decoded |-> FALSE]
    ELSE IF body.decodes
    THEN [err |-> ErrNil, decoded |-> TRUE]
    ELSE [err |-> ErrJSONDecode, decoded |-> FALSE]

CallGeminiCaptureError ==
    \E body \in GeminiBodies :
        /\ dLast' = [op |-> "GeminiResponse", answer |-> body,
                     decoded |-> GeminiCaptureError(body).decoded,
                     err |-> GeminiCaptureError(body).err]
        /\ UNCHANGED <<lastOpenOrders, kTicker>>

\* Kraken.HTTPRequest: HTTPRequestJSON, then json.Unmarshal of the result
KrakenHTTPRequest(response, unmarshals) ==
    IF KrakenHTTPRequestJSON(response).err # ErrNil
    THEN KrakenHTTPRequestJSON(response).err
    ELSE IF unmarshals THEN ErrNil ELSE ErrJSONDecode

\* the private calls of Kraken that make their request and then panic
KrakenPrivateCalls ==
    {"GetBalance", "GetTradeBalance", "GetClosedOrders", "QueryOrdersInfo",
     "GetTradesHistory", "QueryTrades", "OpenPositions", "GetLedgers",
     "QueryLedgers", "GetTradeVolume", "AddOrder", "cancelOrder"}

\* err := k.HTTPRequest(...); if err != nil { return err };
\* panic("not implemented")
KrakenPrivateCall(method, response, unmarshals) ==
    IF KrakenHTTPRequest(response, unmarshals) # ErrNil
    THEN KrakenHTTPRequest(response, unmarshals)
    ELSE Panic

\* Kraken.newOrder, Binance.UpdateTicker, Binance.GetTickerPrice
NotImplementedCalls ==
    {"Kraken.newOrder", "Binance.UpdateTicker", "Binance.GetTickerPrice"}
NotImplemented(method) == Panic

\* Binance.NewOrder: the order type is checked before the order is posted
BinanceOrderTypes == {OrderTypeExchangeLimit, "market"}
BinanceNewOrder(orderType, postErr) ==
    IF orderType = OrderTypeExchangeLimit
    THEN postErr
    ELSE Panic

CallKrakenPrivate ==
    \E method \in KrakenPrivateCalls, response \in KrakenResponses,
       unmarshals \in BOOLEAN :
        /\ dLast' = [op |-> "Unimplemented", method |-> <<"Kraken", method>>,
                     answer |-> response,
                     reached |-> KrakenHTTPRequest(response, unmarshals)
                                     = ErrNil,
                     err |-> KrakenPrivateCall(method, response, unmarshals)]
        /\ UNCHANGED <<lastOpenOrders, kTicker>>

CallNotImplemented ==
    \E method \in NotImplementedCalls :
        /\ dLast' = [op |-> "Unimplemented", method |-> <<method>>,
                     answer |-> "none", reached |-> TRUE,
                     err |-> NotImplemented(method)]
        /\ UNCHANGED <<lastOpenOrders, kTicker>>

CallBinanceNewOrder ==
    \E orderType \in BinanceOrderTypes, postErr \in {ErrNil, ErrFetch} :
        /\ dLast' = [op |-> "Unimplemented",
                     method |-> <<"Binance.NewOrder", orderType>>,
                     answer |-> postErr,
                     reached |-> orderType # OrderTypeExchangeLimit,
                     err |-> BinanceNewOrder(orderType, postErr)]
        /\ UNCHANGED <<lastOpenOrders, kTicker>>

(***************************************************************************)
(* CancelOrder of the three drivers.  An order ID is a string; the request *)
(* a driver sends is recorded with the integer it names.                   *)
(***************************************************************************)
OrderStrings ==
    {<<"4", "2">>, <<"7">>, <<"0">>, <<"-", "7">>, <<"a", "7">>,
     <<"7", "x">>, <<>>}
ErrParseInt == "strconv.ParseInt: invalid syntax"

\* strconv.ParseInt(str, 10, 64) on the short strings of the model: an
\* optional sign and decimal digits give the value and a nil error, anything
\* else gives 0 and a syntax error
ParseInt(str) ==
    LET signed == str # <<>> /\ str[1] \in {"+", "-"}
        digits == IF signed THEN SubSeq(str, 2, Len(str)) ELSE str
    IN  IF digits # <<>> /\ \A i \in DOMAIN digits : digits[i] \in Digits
        THEN [value |-> IF signed /\ str[1] = "-"
                        THEN 0 - DecimalValue(digits)
                        ELSE DecimalValue(digits),
              err |-> ErrNil]
        ELSE [value |-> 0, err |-> ErrParseInt]

\* Kraken.cancelOrder: the request carries txid = FormatInt(orderID); a
\* request that succeeds is followed by panic("not implemented")
KrakencancelOrder(orderID, response, unmarshals) ==
    [sent |-> <<[path |-> "CancelOrder", txid |-> FormatInt(orderID)]>>,
     err |-> KrakenPrivateCall("cancelOrder", response, unmarshals)]

\* Kraken.CancelOrder: if orderID, err = ParseInt(...); err == nil
\* { return err }; return k.cancelOrder(orderID)
KrakenCancelOrder(orderStr, response, unmarshals) ==
    IF ParseInt(orderStr).err = ErrNil
    THEN [sent |-> <<>>, err |-> ParseInt(orderStr).err]
    ELSE KrakencancelOrder(ParseInt(orderStr).value, response, unmarshals)

\* Binance.CancelOrder: a parse error is returned, else
\* DeleteOrder(symbol, id, "") is called and its error returned
BinanceCancelOrder(orderID, currencyPair, deleteErr) ==
    IF ParseInt(orderID).err # ErrNil
    THEN [sent |-> <<>>, err |-> ParseInt(orderID).err]
    ELSE [sent |-> <<[symbol |-> CurrencyPairToSymbol(currencyPair),
                      id |-> ParseInt(orderID).value]>>,
          err |-> deleteErr]

\* Gemini.CancelOrderEx: request["order_id"] = OrderID, sent signed
GeminiCancelOrderEx(OrderID, sendErr) ==
    [sent |-> <<[path |-> "order/cancel", order_id |-> OrderID]>>,
     err |-> sendErr]

\* Gemini.CancelOrder: a parse error is returned, else CancelOrderEx
GeminiCancelOrder(orderStr, sendErr) ==
    IF ParseInt(orderStr).err # ErrNil
    THEN [sent |-> <<>>, err |-> ParseInt(orderStr).err]
    ELSE GeminiCancelOrderEx(ParseInt(orderStr).value, sendErr)

CallKrakenCancelOrder ==
    \E orderStr \in OrderStrings, response \in KrakenResponses,
       unmarshals \in BOOLEAN :
        /\ dLast' = [op |-> "CancelOrder", driver |-> "Kraken",
                     orderStr |-> orderStr,
                     sent |-> KrakenCancelOrder(orderStr, response,
                                                unmarshals).sent,
                     err |-> KrakenCancelOrder(orderStr, response,
                                               unmarshals).err]
        /\ UNCHANGED <<lastOpenOrders, kTicker>>

CallBinanceCancelOrder ==
    \E orderID \in OrderStrings, p \in Pairs, deleteErr \in {ErrNil, ErrFetch} :
        /\ dLast' = [op |-> "CancelOrder", driver |-> "Binance",
                     orderStr |-> orderID,
                     sent |-> BinanceCancelOrder(orderID, p, deleteErr).sent,
                     err |-> BinanceCancelOrder(orderID, p, deleteErr).err]
        /\ UNCHANGED <<lastOpenOrders, kTicker>>

CallGeminiCancelOrder ==
    \E orderStr \in OrderStrings, sendErr \in {ErrNil, ErrFetch} :
        /\ dLast' = [op |-> "CancelOrder", driver |-> "Gemini",
                     orderStr |-> orderStr,
                     sent |-> GeminiCancelOrder(orderStr, sendErr).sent,
                     err |-> GeminiCancelOrder(orderStr, sendErr).err]
        /\ UNCHANGED <<lastOpenOrders, kTicker>>

(***************************************************************************)
(* Binance.Run, the goroutine Start launches, step by step, and the        *)
(* getters GetCurrencyPairs and GetLimits other goroutines call meanwhile. *)
(* A map is nil until make() and then holds its entries.                   *)
(***************************************************************************)
NilMap == [made |-> FALSE, entries |-> <<>>]
MakeMap == [made |-> TRUE, entries |-> <<>>]
MapPut(m, key, value) ==
    [m EXCEPT !.entries = [x \in DOMAIN @ \cup {key} |->
                              IF x = key THEN value ELSE @[x]]]

FilterTypePrice == "PRICE_FILTER"
FilterTypeLotSize == "LOT_SIZE"
FilterTypeMinNotional == "MIN_NOTIONAL"

\* the symbols of the exchange info: one entry per pair, with its filters
SymbolInfoOf(p) ==
    [Symbol |-> CurrencyPairToSymbol(p),
     BaseAsset |-> p.FirstCurrency, QuoteAsset |-> p.SecondCurrency,
     Filters |-> <<[Type |-> FilterTypePrice, Exponent |-> -8],
                   [Type |-> FilterTypeLotSize, Exponent |-> -3],
                   [Type |-> "ICEBERG_PARTS", Exponent |-> 0]>>]
ExchangeInfos ==
    {info \in SeqsUpTo({SymbolInfoOf(p) : p \in Pairs}, MaxSymbols) :
        \A x, y \in DOMAIN info : x # y => info[x] # info[y]}

\* pair.NewCurrencyPair(symbolInfo.BaseAsset, symbolInfo.QuoteAsset)
NewCurrencyPair(base, quote) ==
    [FirstCurrency |-> base, SecondCurrency |-> quote]

\* the switch over symbolInfo.Filters: the last filter of a type sets the
\* field, other types are ignored
FilterExponent(filters, type, unset) ==
    IF \E x \in DOMAIN filters : filters[x].Type = type
    THEN 0 - filters[CHOOSE x \in DOMAIN filters :
                        /\ filters[x].Type = type
                        /\ \A y \in DOMAIN filters :
                               filters[y].Type = type => y <= x].Exponent
    ELSE unset
SymbolDetailsOf(symbolInfo) ==
    [PriceDecimalPlaces |->
         FilterExponent(symbolInfo.Filters, FilterTypePrice, 0),
     AmountDecimalPlaces |->
         FilterExponent(symbolInfo.Filters, FilterTypeLotSize, 0)]

NoMapRead == [op |-> "none"]

RInit ==
    /\ rpc = "start"
    /\ rInfo = <<>>
    /\ ri = 1
    /\ currencyPairs = NilMap
    /\ symbolDetailsMap = NilMap
    /\ rSeen = NoMapRead

\* exchangeInfo, err := b.FetchExchangeInfo(); if err != nil { return }
RunFetchExchangeInfo ==
    /\ rpc = "start"
    /\ \E info \in ExchangeInfos, ok \in BOOLEAN :
           IF ok THEN rInfo' = info /\ rpc' = "make"
                 ELSE rInfo' = rInfo /\ rpc' = "done"
    /\ UNCHANGED <<ri, currencyPairs, symbolDetailsMap, rSeen>>

\* b.currencyPairs = make(...); b.symbolDetailsMap = make(...)
RunMakeMaps ==
    /\ rpc = "make"
    /\ currencyPairs' = MakeMap
    /\ symbolDetailsMap' = MakeMap
    /\ ri' = 1
    /\ rpc' = IF Len(rInfo) = 0 THEN "update" ELSE "pair"
    /\ UNCHANGED <<rInfo, rSeen>>

\* b.currencyPairs[pair.CurrencyItem(symbolInfo.Symbol)] = &...
RunPutPair ==
    /\ rpc = "pair"
    /\ currencyPairs' =
           MapPut(currencyPairs, rInfo[ri].Symbol,
                  [Currency |-> NewCurrencyPair(rInfo[ri].BaseAsset,
                                                rInfo[ri].QuoteAsset)])
    /\ rpc' = "details"
    /\ UNCHANGED <<rInfo, ri, symbolDetailsMap, rSeen>>

\* b.symbolDetailsMap[currencyPair.Display("/", false)] = &sd; next i
RunPutDetails ==
    /\ rpc = "details"
    /\ symbolDetailsMap' =
           MapPut(symbolDetailsMap,
                  Display(NewCurrencyPair(rInfo[ri].BaseAsset,
                                          rInfo[ri].QuoteAsset)),
                  SymbolDetailsOf(rInfo[ri]))
    /\ ri' = ri + 1
    /\ rpc' = IF ri = Len(rInfo) THEN "update" ELSE "pair"
    /\ UNCHANGED <<rInfo, currencyPairs, rSeen>>

\* err = b.UpdateAvailableCurrencies(exchangeProducts, false); Run returns
RunUpdateAvailableCurrencies ==
    /\ rpc = "update"
    /\ rpc' = "done"
    /\ UNCHANGED <<rInfo, ri, currencyPairs, symbolDetailsMap, rSeen>>

\* Binance.GetCurrencyPairs, called from another goroutine
ReadGetCurrencyPairs ==
    /\ rSeen' = [op |-> "GetCurrencyPairs", map |-> currencyPairs,
                 during |-> rpc, info |-> rInfo]
    /\ UNCHANGED <<rpc, rInfo, ri, currencyPairs, symbolDetailsMap>>

\* Binance.GetLimits, called from another goroutine
ReadGetLimits ==
    /\ rSeen' = [op |-> "GetLimits", map |-> symbolDetailsMap,
                 during |-> rpc, info |-> rInfo]
    /\ UNCHANGED <<rpc, rInfo, ri, currencyPairs, symbolDetailsMap>>

----------------------------------------------------------------------------
KFrozen ==
    /\ k = KrakenDefaults
    /\ kpc = [p \in KProcs |-> "idle"]
    /\ kSawZero = [p \in KProcs |-> FALSE]
    /\ kValues = [p \in KProcs |-> <<>>]
    /\ kCalls = [p \in KProcs |-> 0]
    /\ kResult = [p \in KProcs |-> "none"]
    /\ kNet = <<>>

GFrozen ==
    /\ g = [i \in Geminis |-> GeminiDefaults]
    /\ Session = [sid \in SessionIDs |-> NoSession]
    /\ apc = [a \in Adders |-> "idle"]
    /\ aArgs = [a \in Adders |-> NoArgs]
    /\ aCalls = [a \in Adders |-> 0]
    /\ aResult = [a \in Adders |-> "none"]
    /\ gNet = <<>>
    /\ gLast = [inst |-> 0, result |-> "none"]

MFrozen ==
    /\ mName = BinanceName
    /\ nilPolicy = NoMarketData
    /\ Orderbooks = [key \in Keys |-> NoBook]
    /\ Tickers = [key \in Keys |-> NoTicker]
    /\ lastMarketData = [sym \in Symbols |-> NoMarketData]
    /\ mFetched = [key \in Keys |-> NoMarketData]
    /\ mLast = NoCall

\* several goroutines share the Kraken instance
KNext ==
    \/ Tick /\ UNCHANGED <<kvars, gvars, ovars, mvars, uvars, dvars, rvars>>
    \/ (\E p \in KProcs : KStep(p)) /\ UNCHANGED <<clock, gvars, ovars, mvars, uvars, dvars, rvars>>
InitKraken == clock = MinClock /\ KInit /\ GFrozen /\ OInit /\ MFrozen /\ UInit /\ DInit /\ RInit
SpecKraken == InitKraken /\ [][KNext]_vars

\* one caller uses the Kraken instance
SeqNext ==
    \/ Tick /\ UNCHANGED <<kvars, gvars, ovars, mvars, uvars, dvars, rvars>>
    \/ (\E p \in SeqProcs : KStep(p)) /\ UNCHANGED <<clock, gvars, ovars, mvars, uvars, dvars, rvars>>
SpecSeq == InitKraken /\ [][SeqNext]_vars

\* authenticated requests of Kraken goroutines and of Gemini instances
SignedNext ==
    \/ Tick /\ UNCHANGED <<kvars, gvars, ovars, mvars, uvars, dvars, rvars>>
    \/ (\E p \in KProcs : KStep(p) /\ kCalls'[p] <= MaxSigned)
          /\ UNCHANGED <<clock, gvars, ovars, mvars, uvars, dvars, rvars>>
    \/ GRequest /\ UNCHANGED <<clock, kvars, ovars, mvars, uvars, dvars, rvars>>
InitSigned ==
    clock = MinClock /\ KInit /\ GInit /\ OInit /\ MFrozen /\ UInit /\ DInit /\ RInit
SpecSigned == InitSigned /\ [][SignedNext]_vars

\* Gemini sessions are added and used
GNext ==
    \/ Tick /\ UNCHANGED <<kvars, gvars, ovars, mvars, uvars, dvars, rvars>>
    \/ (\E a \in Adders, args \in AddSessionArgs : AddSessionLookup(a, args))
          /\ UNCHANGED <<clock, kvars, ovars, mvars, uvars, dvars, rvars>>
    \/ (\E a \in Adders : AddSessionStore(a)) /\ UNCHANGED <<clock, kvars, ovars, mvars, uvars, dvars, rvars>>
    \/ GRequest /\ UNCHANGED <<clock, kvars, ovars, mvars, uvars, dvars, rvars>>
InitGemini == clock = MinClock /\ KFrozen /\ GInit /\ OInit /\ MFrozen /\ UInit /\ DInit /\ RInit
SpecGemini == InitGemini /\ [][GNext]_vars

\* Gemini calls made one after another
SessionsNext ==
    \/ Tick /\ UNCHANGED <<kvars, gvars, ovars, mvars, uvars, dvars, rvars>>
    \/ (\E a \in Adders, args \in AddSessionArgs : AddSession(a, args))
          /\ UNCHANGED <<clock, kvars, ovars, mvars, uvars, dvars, rvars>>
    \/ GRequest /\ UNCHANGED <<clock, kvars, ovars, mvars, uvars, dvars, rvars>>
    \/ GWithdrawCrypto
          /\ UNCHANGED <<clock, kvars, ovars, mvars, uvars, dvars, rvars>>
SpecSessions == InitGemini /\ [][SessionsNext]_vars

\* the drivers convert the orders and trades the exchanges report
ONext ==
    \/ BinanceGetOrder /\ UNCHANGED <<clock, kvars, gvars, mvars, uvars, dvars, rvars>>
    \/ GeminiGetOrder /\ UNCHANGED <<clock, kvars, gvars, mvars, uvars, dvars, rvars>>
    \/ GeminiTradeHistory /\ UNCHANGED <<clock, kvars, gvars, mvars, uvars, dvars, rvars>>
InitOrders == clock = MinClock /\ KFrozen /\ GFrozen /\ OInit /\ MFrozen /\ UInit /\ DInit /\ RInit
SpecOrders == InitOrders /\ [][ONext]_vars

\* one driver instance is polled for order books and tickers
MNext ==
    \/ CallBinanceUpdateOrderbook /\ UNCHANGED <<clock, kvars, gvars, ovars, uvars, dvars, rvars>>
    \/ CallBinanceGetOrderbookEx /\ UNCHANGED <<clock, kvars, gvars, ovars, uvars, dvars, rvars>>
    \/ CallLiquiUpdateOrderbook /\ UNCHANGED <<clock, kvars, gvars, ovars, uvars, dvars, rvars>>
    \/ CallLiquiGetOrderbookEx /\ UNCHANGED <<clock, kvars, gvars, ovars, uvars, dvars, rvars>>
    \/ CallLiquiUpdateTicker /\ UNCHANGED <<clock, kvars, gvars, ovars, uvars, dvars, rvars>>
    \/ CallLiquiGetTickerPrice /\ UNCHANGED <<clock, kvars, gvars, ovars, uvars, dvars, rvars>>
InitMarket == clock = MinClock /\ KFrozen /\ GFrozen /\ OInit /\ MInit /\ UInit /\ DInit /\ RInit
SpecMarket == InitMarket /\ [][MNext]_vars

\* goroutines update and read the order books of one instance concurrently
UNext ==
    \/ (\E u \in Updaters, p \in Pairs, answer \in FetchAnswers :
            answer.data \in OverlapDatas \cup {NoMarketData}
                /\ UFetchBinance(u, p, answer))
          /\ UNCHANGED <<clock, kvars, gvars, ovars, dvars, rvars>>
    \/ (\E u \in Updaters, p \in Pairs, answer \in DepthAnswers :
            answer.data \in {LiquiDepth(md) : md \in OverlapDatas}
                                \cup {NoMarketData}
                /\ UFetchLiqui(u, p, answer))
          /\ UNCHANGED <<clock, kvars, gvars, ovars, dvars, rvars>>
    \/ (\E u \in Updaters : UProcessOrderbook(u))
          /\ UNCHANGED <<clock, kvars, gvars, ovars, dvars, rvars>>
    \/ (\E u \in Updaters : UGetOrderbook(u))
          /\ UNCHANGED <<clock, kvars, gvars, ovars, dvars, rvars>>
    \/ (\E p \in Pairs, assetType \in AssetTypes :
            UReadOrderbook(p, assetType))
          /\ UNCHANGED <<clock, kvars, gvars, ovars, dvars, rvars>>
SpecOverlap == InitMarket /\ [][UNext]_vars

\* single calls of the drivers
DNext ==
    \/ CallGetOrders /\ UNCHANGED <<clock, kvars, gvars, ovars, mvars, uvars, rvars>>
    \/ CallBinanceLimits
          /\ UNCHANGED <<clock, kvars, gvars, ovars, mvars, uvars, rvars>>
    \/ CallGeminiLimits
          /\ UNCHANGED <<clock, kvars, gvars, ovars, mvars, uvars, rvars>>
    \/ CallKrakenPrivate
          /\ UNCHANGED <<clock, kvars, gvars, ovars, mvars, uvars, rvars>>
    \/ CallNotImplemented
          /\ UNCHANGED <<clock, kvars, gvars, ovars, mvars, uvars, rvars>>
    \/ CallBinanceNewOrder
          /\ UNCHANGED <<clock, kvars, gvars, ovars, mvars, uvars, rvars>>
    \/ CallKrakenCancelOrder
          /\ UNCHANGED <<clock, kvars, gvars, ovars, mvars, uvars, rvars>>
    \/ CallBinanceCancelOrder
          /\ UNCHANGED <<clock, kvars, gvars, ovars, mvars, uvars, rvars>>
    \/ CallGeminiCancelOrder
          /\ UNCHANGED <<clock, kvars, gvars, ovars, mvars, uvars, rvars>>
SpecCalls == InitOrders /\ [][DNext]_vars

\* Binance.Run and the goroutines that read the maps it fills
RunNext ==
    \/ RunFetchExchangeInfo /\ UNCHANGED <<clock, kvars, gvars, ovars, mvars, uvars, dvars>>
    \/ RunMakeMaps /\ UNCHANGED <<clock, kvars, gvars, ovars, mvars, uvars, dvars>>
    \/ RunPutPair /\ UNCHANGED <<clock, kvars, gvars, ovars, mvars, uvars, dvars>>
    \/ RunPutDetails /\ UNCHANGED <<clock, kvars, gvars, ovars, mvars, uvars, dvars>>
    \/ RunUpdateAvailableCurrencies
          /\ UNCHANGED <<clock, kvars, gvars, ovars, mvars, uvars, dvars>>
    \/ ReadGetCurrencyPairs /\ UNCHANGED <<clock, kvars, gvars, ovars, mvars, uvars, dvars>>
    \/ ReadGetLimits /\ UNCHANGED <<clock, kvars, gvars, ovars, mvars, uvars, dvars>>
SpecRun == InitOrders /\ [][RunNext]_vars

\* calls of the public endpoints of Kraken and Gemini
PNext ==
    \/ CallKrakenGetTicker
          /\ UNCHANGED <<clock, kvars, gvars, ovars, mvars, uvars, rvars>>
    \/ CallKrakenGetDepth
          /\ UNCHANGED <<clock, kvars, gvars, ovars, mvars, uvars, rvars>>
    \/ CallGeminiGetTicker
          /\ UNCHANGED <<clock, kvars, gvars, ovars, mvars, uvars, rvars>>
    \/ CallKrakenHTTPRequestJSON
          /\ UNCHANGED <<clock, kvars, gvars, ovars, mvars, uvars, rvars>>
    \/ CallGeminiCaptureError
          /\ UNCHANGED <<clock, kvars, gvars, ovars, mvars, uvars, rvars>>
SpecPublic == InitOrders /\ [][PNext]_vars

----------------------------------------------------------------------------
(***************************************************************************)
(* Claims about the nonce sequencing of authenticated requests.            *)
(***************************************************************************)
\* the integer a decimal nonce string of a request stands for
RECURSIVE NonceValue(_)
NonceValue(d) ==
    IF d = <<>> THEN 0
    ELSE 10 * NonceValue(SubSeq(d, 1, Len(d) - 1)) + d[Len(d)]

\* C1: the requests goroutines send concurrently on one Kraken instance carry
\* pairwise distinct nonces.
C1_ConcurrentNoncesDistinct ==
    \A i, j \in DOMAIN kNet : i # j => kNet[i].nonce # kNet[j].nonce

\* C2: on a Kraken instance used by one caller the first request sent carries
\* a wall clock reading and every later request the previous nonce plus one.
C2_SequentialNonces ==
    /\ Len(kNet) >= 1 => NonceValue(kNet[1].nonce) \in MinClock..clock
    /\ \A i \in 2..Len(kNet) :
           NonceValue(kNet[i].nonce) = NonceValue(kNet[i - 1].nonce) + 1

\* three requests were sent while the clock moved on
C2_Witness ==
    /\ Len(kNet) >= 3
    /\ clock > MinClock
    /\ NonceValue(kNet[1].nonce) = MinClock

\* C3: no request reaches the network while the API key or secret is unset,
\* and a request made in that state returns the credentials-missing error.
C3_NoRequestWithoutCredentials ==
    /\ \A i \in DOMAIN gNet :
           gNet[i].apiKey # NoKey /\ gNet[i].apiSecret # NoKey
    /\ \A i \in DOMAIN kNet :
           kNet[i].apiKey # NoKey /\ kNet[i].apiSecret # NoKey
    /\ (gLast.result # "none" /\ (gLast.apiKey = NoKey \/ gLast.apiSecret = NoKey))
           => gLast.result = "credentialsMissing"

----------------------------------------------------------------------------
(***************************************************************************)
(* Claims about the order state normaliser.                                *)
(***************************************************************************)
BinanceRecognised ==
    {OrderStatusNew, OrderStatusPartial, OrderStatusFilled,
     OrderStatusCanceled, OrderStatusPendingCancel, OrderStatusRejected,
     OrderStatusExpired}

\* C4: a canonical order of any driver whose remaining amount is zero has
\* status Filled, whatever the exchange reported.
C4_ZeroRemainingIsFilled ==
    \A i \in DOMAIN oOrders :
        oOrders[i].RemainingAmount = 0
            => oOrders[i].Status = ExchangeOrderStatusFilled

\* C5: Binance orders with a non-zero remaining amount: new and partially
\* filled are Active, filled is Filled, canceled, pending-cancel, expired and
\* rejected are Aborted.
C5_BinanceStatusMapping ==
    oDriver = "binance" =>
        \A i \in DOMAIN oOrders :
            oOrders[i].RemainingAmount # 0 =>
                /\ oRaw[i].Status \in {OrderStatusNew, OrderStatusPartial}
                       => oOrders[i].Status = ExchangeOrderStatusActive
                /\ oRaw[i].Status = OrderStatusFilled
                       => oOrders[i].Status = ExchangeOrderStatusFilled
                /\ oRaw[i].Status \in {OrderStatusCanceled,
                                       OrderStatusPendingCancel,
                                       OrderStatusExpired, OrderStatusRejected}
                       => oOrders[i].Status = ExchangeOrderStatusAborted

\* a partly executed Binance order in pending cancel was converted
C5_Witness ==
    /\ oDriver = "binance"
    /\ oRaw[1].Status = OrderStatusPendingCancel
    /\ oRaw[1].ExecutedQty > 0
    /\ oOrders[1].RemainingAmount # 0
    /\ oOrders[1].Status = ExchangeOrderStatusAborted

\* C6: an order with a non-zero remaining amount whose raw status is not
\* recognised (Binance: another status string; Gemini: neither live nor
\* cancelled) has status Unknown.
C6_UnrecognisedIsUnknown ==
    \A i \in DOMAIN oOrders :
        /\ (/\ oDriver = "binance"
            /\ oOrders[i].RemainingAmount # 0
            /\ oRaw[i].Status \notin BinanceRecognised)
               => oOrders[i].Status = ExchangeOrderStatusUnknown
        /\ (/\ oDriver = "gemini"
            /\ oOrders[i].RemainingAmount # 0
            /\ ~oRaw[i].IsLive
            /\ ~oRaw[i].IsCancelled)
               => oOrders[i].Status = ExchangeOrderStatusUnknown

\* C7: every canonical order has RemainingAmount = Amount - FilledAmount.
C7_RemainingIsAmountMinusFilled ==
    \A i \in DOMAIN oOrders :
        oOrders[i].RemainingAmount
            = oOrders[i].Amount - oOrders[i].FilledAmount

----------------------------------------------------------------------------
Missing(entry) == entry \in {NoBook, NoTicker}

\* C8: a get-or-update reader (GetOrderbookEx of Binance and Liqui,
\* GetTickerPrice of Liqui) fetches exactly when the cache holds no snapshot
\* for the key: on a miss it fetches and what it returns with a nil error is
\* the snapshot now cached, never an empty book; on a hit it returns the
\* cached snapshot without fetching.
C8_ReadersFetchExactlyOnMiss ==
    mLast.op \in {"GetOrderbookEx", "GetTickerPrice"} =>
        /\ mLast.fetched <=> Missing(mLast.before)
        /\ ~Missing(mLast.before) =>
               mLast.err = ErrNil /\ mLast.value = mLast.before
        /\ (Missing(mLast.before) /\ mLast.err = ErrNil) =>
               /\ mLast.op = "GetOrderbookEx" =>
                      mLast.value =
                          Orderbooks[<<mName, mLast.pair, mLast.assetType>>]
               /\ mLast.op = "GetTickerPrice" =>
                      mLast.value =
                          Tickers[<<mName, mLast.pair, mLast.assetType>>]

LevelPrice(l) == IF mName = BinanceName THEN l.Price ELSE l[1]
LevelAmount(l) == IF mName = BinanceName THEN l.Quantity ELSE l[2]
SideBuiltFrom(side, levels) ==
    /\ Len(side) = Len(levels)
    /\ \A i \in DOMAIN side :
           /\ side[i].Price = LevelPrice(levels[i])
           /\ side[i].Amount = LevelAmount(levels[i])
BookBuiltFrom(book, data) ==
    /\ SideBuiltFrom(book.Bids, data.Bids)
    /\ SideBuiltFrom(book.Asks, data.Asks)

\* C10: after UpdateOrderbook succeeds, the book it returns, and the book a
\* cache read of the key returns until the key is next updated, has exactly
\* the bids and asks of the fetched market data: the same prices and
\* amounts in the same order.
C10_BookIsTheOneFetched ==
    /\ (mLast.op = "UpdateOrderbook" /\ mLast.err = ErrNil) =>
           BookBuiltFrom(mLast.value, mLast.data)
    /\ \A key \in Keys :
           mFetched[key] # NoMarketData =>
               /\ GetOrderbook(Orderbooks, key[1], key[2], key[3]).err = ErrNil
               /\ BookBuiltFrom(
                      GetOrderbook(Orderbooks, key[1], key[2], key[3]).book,
                      mFetched[key])

C10_Witness ==
    \E key \in Keys :
        /\ key[1] = LiquiName
        /\ mLast.op = "UpdateOrderbook"
        /\ mLast.err = ErrNil
        /\ mLast.pair # key[2]
        /\ mFetched[key] # NoMarketData
        /\ Len(Orderbooks[key].Bids) > 1
        /\ Orderbooks[key].Bids[1].Price < Orderbooks[key].Bids[2].Price
        /\ Len(Orderbooks[key].Asks) = 1

\* C11: when updates and reads of the order books of one instance overlap,
\* every read, the read-back inside UpdateOrderbook included, returns one
\* complete book that an update put under that key, never a mix of two
\* books; and an update of one key leaves the book of every other key as it
\* was.
C11_ReadsSeeWholeBooks ==
    /\ [](uRead # NoRead =>
            IF uRead.written = {}
            THEN uRead.err = ErrNotFound
            ELSE uRead.err = ErrNil /\ uRead.book \in uRead.written)
    /\ [][\A key \in Keys :
              Orderbooks'[key] # Orderbooks[key] =>
                  \E u \in Updaters :
                      /\ uProc[u].pc = "process"
                      /\ key = <<mName, uProc[u].pair, uProc[u].assetType>>
                      /\ Orderbooks'[key] = uProc[u].book]_vars

\* the read-back of one update returned the book another update put under
\* the same key in between, while the other pair's key holds its own book
C11_Witness ==
    /\ uRead # NoRead
    /\ uRead.by \in Updaters
    /\ uRead.err = ErrNil
    /\ uRead.book # uRead.own
    /\ Len(uRead.book.Bids) = 2
    /\ Cardinality(uRead.written) = 2

\* C12: no fetch error is dropped: when the fetch inside Binance's
\* UpdateOrderbook fails, the caller receives a non-nil error, and the rate
\* limited sentinel itself when the fetch was rate limited.
C12_FetchErrorReachesCaller ==
    (/\ mName = BinanceName
     /\ mLast.op = "UpdateOrderbook"
     /\ mLast.answer # "ok"
     /\ mLast.err # Panic) =>
        /\ mLast.err # ErrNil
        /\ mLast.answer = "rateLimited" =>
               mLast.err = WarningHTTPRequestRateLimited

\* the symbols a GetOrders call fetches the open orders of, in order
FetchedSymbols(pairs) ==
    IF Len(pairs) = 0 THEN <<NoSymbol>>
    ELSE [i \in DOMAIN pairs |-> CurrencyPairToSymbol(pairs[i])]

\* the raw orders of the last successful fetch of each fetched symbol, one
\* symbol after the other
RECURSIVE LastFetched(_, _, _, _)
LastFetched(before, symbols, answers, i) ==
    IF i > Len(symbols) THEN <<>>
    ELSE (IF answers[i].kind = "ok" THEN answers[i].orders
          ELSE before[symbols[i]])
             \o LastFetched(before, symbols, answers, i + 1)

\* C13: a Binance GetOrders call that is rate limited on any of its open
\* order fetches returns the orders of the last successful fetches together
\* with the rate limited sentinel; a call that meets any other fetch error
\* returns no orders and that error.
C13_GetOrdersRateLimited ==
    dLast.op = "GetOrders" =>
        LET kinds == {dLast.answers[i].kind : i \in DOMAIN dLast.answers}
        IN  /\ ("rateLimited" \in kinds /\ "error" \notin kinds) =>
                   /\ dLast.err = WarningHTTPRequestRateLimited
                   /\ dLast.orders =
                          ConvertOrders(LastFetched(dLast.before,
                              FetchedSymbols(dLast.pairs), dLast.answers, 1))
            /\ ("error" \in kinds /\ "rateLimited" \notin kinds) =>
                   /\ dLast.err = ErrFetch
                   /\ dLast.orders = NilOrders

\* C14: for a pair that has no limits entry, GetPriceDecimalPlaces and
\* GetAmountDecimalPlaces of the limits object of Binance and of Gemini
\* return -1, a value no defined limit has.
C14_MissingLimitIsMinusOne ==
    (dLast.op = "Limits" /\ ~dLast.defined) =>
        dLast.price = -1 /\ dLast.amount = -1

Unparsable(str) == ParseFloat(str).err # ErrNil
\* a depth entry whose price or amount cannot be parsed
BadEntries(side) ==
    {x \in DOMAIN side : Unparsable(side[x][1]) \/ Unparsable(side[x][2])}

\* C15: when a numeric field of a response cannot be parsed (ask, bid, last,
\* volume, low, high of Kraken GetTicker, prices and amounts of Kraken
\* GetDepth, volumes of Gemini GetTicker), the call returns an error and no
\* ticker or book side derived from the field is stored or returned.
C15_UnparsableFieldIsAnError ==
    /\ dLast.op = "KrakenGetTicker" =>
           \A n \in DOMAIN dLast.answer.Data :
               (\/ Unparsable(dLast.answer.Data[n].Ask)
                \/ Unparsable(dLast.answer.Data[n].Bid)
                \/ Unparsable(dLast.answer.Data[n].Last)
                \/ Unparsable(dLast.answer.Data[n].Volume)
                \/ Unparsable(dLast.answer.Data[n].Low)
                \/ Unparsable(dLast.answer.Data[n].High)) =>
                   dLast.err # ErrNil /\ kTicker = dLast.before
    /\ (dLast.op = "KrakenGetDepth" /\ dLast.answer.kind = "ok") =>
           /\ BadEntries(dLast.answer.bids) # {} =>
                  dLast.err # ErrNil /\ dLast.ob.Bids = <<>>
           /\ BadEntries(dLast.answer.asks) # {} =>
                  dLast.err # ErrNil /\ dLast.ob.Asks = <<>>
    /\ (/\ dLast.op = "GeminiGetTicker"
        /\ dLast.answer.kind = "ok"
        /\ SubSeq(dLast.pair, 1, 3) \in DOMAIN dLast.answer.Volume
        /\ \/ Unparsable(dLast.answer.Volume[SubSeq(dLast.pair, 1, 3)])
           \/ Unparsable(dLast.answer.Volume[<<"U", "S", "D">>])) =>
           dLast.err # ErrNil

\* C16: when the exchange answers with a structured error payload, the call
\* returns a non-nil error whose text is the exchange's message unchanged
\* (Gemini: the message of a body whose result is not "ok"; Kraken: the
\* error strings of the response) and does not report a success.
C16_ExchangeErrorIsSurfaced ==
    /\ (/\ dLast.op = "GeminiResponse"
        /\ dLast.answer.object
        /\ dLast.answer.Result \notin {"", "ok"}) =>
           dLast.err = <<dLast.answer.Message>> /\ ~dLast.decoded
    /\ (dLast.op = "KrakenHTTPRequestJSON" /\ Len(dLast.answer.Errors) > 0) =>
           dLast.err = Join(dLast.answer.Errors, "\n")
    /\ (dLast.op \in {"KrakenGetTicker", "KrakenGetDepth"}
            /\ Len(dLast.answer.Error) > 0) =>
           dLast.err = Join(dLast.answer.Error, "\n")

ErrUnsupported == "Unsupported"

\* C17: no driver operation aborts the process: an operation whose
\* functionality is not implemented (the private calls of Kraken, Binance's
\* UpdateTicker and GetTickerPrice, NewOrder with an order type other than
\* limit) returns an Unsupported error to the caller, also after its HTTP
\* request has succeeded.
C17_UnimplementedIsUnsupported ==
    dLast.op = "Unimplemented" =>
        /\ dLast.err # Panic
        /\ dLast.reached => dLast.err = ErrUnsupported

\* C18: after Liqui's UpdateTicker has fetched the tickers, a read of the
\* ticker cache for (Liqui, pair, asset type) finds, for every enabled pair,
\* a ticker carrying the fetched ask, bid, last, low, high and volume.
C18_FetchedTickerIsCached ==
    (/\ mName = LiquiName
     /\ mLast.op \in {"UpdateTicker", "GetTickerPrice"}
     /\ mLast.fetched
     /\ mLast.answer = "ok") =>
        \A x \in Pairs :
            LET got == GetTicker(Tickers, LiquiName, x, mLast.assetType)
                fetched == mLast.data[FormatExchangeCurrency(x)]
            IN  /\ got.err = ErrNil
                /\ got.price.Ask = fetched.Sell
                /\ got.price.Bid = fetched.Buy
                /\ got.price.Last = fetched.Last
                /\ got.price.Low = fetched.Low
                /\ got.price.High = fetched.High
                /\ got.price.Volume = fetched.Vol_cur

\* what a session signs its requests with
SessionIdentity(gm) == <<gm.Nonce, gm.APIKey, gm.APISecret, gm.Role>>

\* C19: an AddSession call for one session ID never changes the nonce, API
\* key, secret or role another registered session ID uses, and an
\* authenticated request of one instance never changes those of another
\* instance.
C19_SessionsAreIndependent ==
    [][/\ \A sid \in SessionIDs :
              (/\ Session[sid] # NoSession
               /\ \E a \in Adders :
                      /\ apc[a] = "store"
                      /\ apc'[a] = "idle"
                      /\ aArgs[a].sessionID # sid) =>
                  SessionIdentity(g'[Session[sid]])
                      = SessionIdentity(g[Session[sid]])
       /\ \A i \in Geminis :
              (Len(gNet') > Len(gNet) /\ gLast'.inst # i) =>
                  SessionIdentity(g'[i]) = SessionIdentity(g[i])]_vars

\* C20: every order book Binance's or Liqui's UpdateOrderbook puts in the
\* cache has its bids in descending price order and its asks in ascending
\* price order, whatever order the exchange listed them in.
C20_CachedBooksAreSorted ==
    \A key \in Keys :
        Orderbooks[key] # NoBook =>
            /\ \A i, j \in DOMAIN Orderbooks[key].Bids :
                   i < j => Orderbooks[key].Bids[i].Price
                                >= Orderbooks[key].Bids[j].Price
            /\ \A i, j \in DOMAIN Orderbooks[key].Asks :
                   i < j => Orderbooks[key].Asks[i].Price
                                <= Orderbooks[key].Asks[j].Price

\* the base and quote code of the pairs Kraken names in its responses
KrakenPairCodes ==
    (<<"X", "E", "T", "H", "Z", "U", "S", "D">> :>
         [base |-> <<"E", "T", "H">>, quote |-> <<"U", "S", "D">>])
    @@ (<<"X", "L", "T", "C", "Z", "U", "S", "D">> :>
            [base |-> <<"L", "T", "C">>, quote |-> <<"U", "S", "D">>])
    @@ (<<"B", "C", "H", "U", "S", "D">> :>
            [base |-> <<"B", "C", "H">>, quote |-> <<"U", "S", "D">>])

\* C21: Kraken GetTicker stores the ticker of every raw key of the response
\* under the key made of the pair's base code and quote code only
\* ("XETHZUSD" under ETH, USD).
C21_TickerKeyIsBaseAndQuote ==
    (dLast.op = "KrakenGetTicker" /\ dLast.err = ErrNil) =>
        \A n \in DOMAIN dLast.answer.Data :
            LET key == KrakenPairCodes[n].base \o KrakenPairCodes[n].quote
            IN  /\ key \in DOMAIN kTicker
                /\ kTicker[key] = KrakenTickerOf(dLast.answer.Data[n])

\* the integer a cancel request names
CancelledID(req) ==
    IF "txid" \in DOMAIN req THEN req.txid
    ELSE IF "id" \in DOMAIN req THEN req.id
    ELSE req.order_id
IDOf(driver, n) == IF driver = "Kraken" THEN FormatInt(n) ELSE n

\* C22: CancelOrder of every driver sends a cancel request exactly when the
\* order ID parses as a decimal 64-bit integer, and then for that integer;
\* when it does not parse, the parse error is returned and nothing is sent.
C22_CancelSentExactlyWhenIDParses ==
    dLast.op = "CancelOrder" =>
        IF ParseInt(dLast.orderStr).err = ErrNil
        THEN /\ Len(dLast.sent) = 1
             /\ CancelledID(dLast.sent[1])
                    = IDOf(dLast.driver, ParseInt(dLast.orderStr).value)
        ELSE /\ dLast.sent = <<>>
             /\ dLast.err = ParseInt(dLast.orderStr).err

SessionCredentials(gm) == <<gm.APIKey, gm.APISecret>>

\* C23: an AddSession call for a session ID already in the map returns
\* "sessionID already being used" and changes neither the map nor the
\* instances, and a registered session ID keeps the instance and the
\* credentials of the call that registered it through every later call.
C23_RegisteredSessionKeepsFirstCall ==
    [][/\ \A a \in Adders :
              (/\ aCalls'[a] # aCalls[a]
               /\ aResult'[a] = "sessionID already being used") =>
                  (g' = g /\ Session' = Session)
       /\ \A sid \in SessionIDs :
              Session[sid] # NoSession =>
                  /\ Session'[sid] = Session[sid]
                  /\ SessionCredentials(g'[Session[sid]])
                         = SessionCredentials(g[Session[sid]])]_vars

\* C24: of AddSession calls that run concurrently with the same session ID
\* at most one returns nil: a call that stores its instance and returns nil
\* finds no entry of another call under its session ID.
C24_OneConcurrentCallRegisters ==
    [][\A a \in Adders :
           (apc[a] = "store" /\ apc'[a] = "idle" /\ aResult'[a] = "nil") =>
               Session[aArgs[a].sessionID] = NoSession]_vars

\* the requests of caller p that have passed the credentials check and
\* reached the sequencer update
NonceUpdates(p) ==
    IF ~k.AuthenticatedAPISupport THEN 0
    ELSE IF kpc[p] \in {"get", "update"} THEN kCalls[p] - 1
    ELSE kCalls[p]

\* C25: a Kraken authenticated request the credentials check rejects leaves
\* the nonce unchanged, and every request that passes the check seeds or
\* increments the sequencer exactly once, whether it is then sent or fails at
\* secret decoding or transport: the nonce is a clock reading plus the number
\* of later requests that passed the check.
C25_NonceAdvancesOncePerCheckedRequest ==
    \A p \in SeqProcs :
        /\ NonceUpdates(p) = 0 => k.Nonce = 0
        /\ NonceUpdates(p) > 0 =>
               k.Nonce - (NonceUpdates(p) - 1) \in MinClock..clock

\* a second request failed at secret decoding or transport after it had
\* advanced the nonce
C25_Witness ==
    \E p \in SeqProcs :
        /\ kpc[p] = "idle"
        /\ kCalls[p] = 2
        /\ kResult[p] \in {"decodeError", "transportError"}
        /\ k.Nonce > MinClock

\* C26: the signature of an authenticated request covers what the request
\* transmits, also when goroutines share the instance: the nonce Kraken
\* hashes is the nonce in the POST body of the same request, and the payload
\* Gemini signs is the X-GEMINI-PAYLOAD header value and holds the request
\* path and the nonce.
C26_SignatureCoversTheRequest ==
    /\ \A i \in DOMAIN kNet : kNet[i].signedNonce = kNet[i].nonce
    /\ \A i \in DOMAIN gNet :
           /\ gNet[i].signed = gNet[i].payload
           /\ gNet[i].payload.request = SubSeq(gNet[i].url, 2, 3)
           /\ gNet[i].payload.nonce \in MinClock..g[gNet[i].inst].Nonce

\* a Kraken request was sent with a nonce the shared sequencer had already
\* moved past, and a Gemini request was sent
C26_Witness ==
    /\ \E i \in DOMAIN kNet : kNet[i].nonce # NonceString(k.Nonce)
    /\ \E i, j \in DOMAIN kNet : kNet[i].proc # kNet[j].proc
    /\ gNet # <<>>

\* C27: an UpdateOrderbook or UpdateTicker call of Binance or Liqui whose
\* fetch fails with an error other than the rate limit sentinel returns that
\* error and leaves every cache entry as it was.
C27_FailedFetchLeavesCaches ==
    [][(/\ mLast'.op \in {"UpdateOrderbook", "UpdateTicker"}
        /\ mLast'.answer = "error") =>
           /\ mLast'.err = ErrFetch
           /\ Orderbooks' = Orderbooks
           /\ Tickers' = Tickers
           /\ lastMarketData' = lastMarketData]_vars

\* an update failed while the cache held a book or a ticker of the pair
C27_Witness ==
    /\ mLast.op \in {"UpdateOrderbook", "UpdateTicker"}
    /\ mLast.answer = "error"
    /\ mLast.err = ErrFetch
    /\ \/ Orderbooks[<<mName, mLast.pair, mLast.assetType>>] # NoBook
       \/ Tickers[<<mName, mLast.pair, mLast.assetType>>] # NoTicker

\* the keys Run puts in the map a getter returns, one per fetched symbol
KeysOfInfo(op, info) ==
    {IF op = "GetCurrencyPairs" THEN info[x].Symbol
     ELSE Display(NewCurrencyPair(info[x].BaseAsset, info[x].QuoteAsset)) :
         x \in DOMAIN info}

\* C28: a goroutine that calls GetCurrencyPairs or GetLimits while Run is in
\* progress never gets a partially populated map and never reads a map Run
\* is still writing: the map it gets is nil or holds every fetched symbol.
C28_ReadersSeeWholeMaps ==
    (rSeen.op # "none" /\ rSeen.map.made) =>
        /\ DOMAIN rSeen.map.entries = KeysOfInfo(rSeen.op, rSeen.info)
        /\ rSeen.during \in {"update", "done"}

\* C29: the signed payload of a Gemini WithdrawCrypto request carries the
\* destination address and the amount.
C29_WithdrawalPayloadHasAddressAndAmount ==
    \A i \in DOMAIN gNet :
        gNet[i].url[3] \in {WithdrawPath(c) : c \in WithdrawCurrencies} =>
            /\ gNet[i].signed = gNet[i].payload
            /\ {"address", "amount"} \subseteq DOMAIN gNet[i].payload.params

====
